---- MODULE Spec2Model ----
(***************************************************************************)
(* The request-coalescing layer of the autocomplete prediction service:    *)
(* the /predict handler (server.py), LatestOnly.run (latest_only.py),      *)
(* SingleFlight.do (singleflight.py) and the suggestion cache (cache.py),  *)
(* run by one asyncio event loop.  Every action is one run of a task from  *)
(* the point where it is resumed to the next point where it suspends.      *)
(***************************************************************************)
EXTENDS Integers, Sequences, FiniteSets, TLC

\* ---------------------------------------------------------------- bounds
\* Number of /predict requests the model lets arrive.
MaxCalls == 3

CallIds == 1..MaxCalls

\* The seconds the clock of the cache specification runs through.
MaxTime == 21

\* The pieces a prefix, a suffix or a completion of the pipeline
\* specification is made of, at most.
MaxPieces == 2

\* The calls of limiter_for, at most.
MaxLimiterCalls == 4

\* The items the upstream stream of stream_chat_model delivers, at most.
MaxItems == 3

\* The lengths of the prefix, the suffix and the completion RemoveOverlap is
\* called on, at most.
MaxPrefixLen == 3
MaxSuffixLen == 1
MaxCompletionLen == 3

\* The users (X-Client-Id values) that send requests, and the two of them
\* that send the requests when no task is cancelled.
Users == {"A", "B", "C"}
TwoUsers == {"A", "B"}

\* ------------------------------------------------------- cursor contexts
\* The windows of _req_key: prefix[-200:] and suffix[:60].
TailLen == 200
HeadLen == 60

\* Text after the cursor that fills the suffix window exactly.
Filler == [i \in 1..HeadLen |-> "s"]

\* The (prefix, suffix) pairs requests carry; a state holds the index of a
\* pair in this table.  The second and the third pair differ only beyond the
\* suffix window.
CtxTable ==
    << [prefix |-> <<"a">>, suffix |-> <<>>],
       [prefix |-> <<"a", "b">>, suffix |-> Filler],
       [prefix |-> <<"a", "b">>, suffix |-> Filler \o <<"t">>] >>

Contexts == 1..Len(CtxTable)

tail(s) == IF Len(s) <= TailLen THEN s ELSE SubSeq(s, Len(s) - TailLen + 1, Len(s))
head(s) == IF Len(s) <= HeadLen THEN s ELSE SubSeq(s, 1, HeadLen)

\* stable_hash: a deterministic digest of the window text (its code is not
\* part of the sources; the digest is taken to be collision-free).
stable_hash(s) == s

\* _req_key(provider, model, prefix, suffix): provider and model are fixed
\* settings, so the key varies with tail + U+241F + head only.
ReqKey(x) == stable_hash(tail(CtxTable[x].prefix) \o <<"\\u241f">> \o head(CtxTable[x].suffix))

Keys == {ReqKey(x) : x \in Contexts}

\* One context for each fingerprint, and the contexts that share their
\* fingerprint with another context.
PlainContexts == {x \in Contexts : \A y \in Contexts : y < x => ReqKey(y) # ReqKey(x)}
TwinContexts == {x \in Contexts : \E y \in Contexts : y # x /\ ReqKey(y) = ReqKey(x)}

\* ------------------------------------------------------------------ values
\* Python's None (an absent dict entry, no flight).
None == -1
\* The empty completion "".  The non-empty completion the pipeline computes
\* for context x is written x.
EmptyText == 0

\* Result objects (utils.Result): ok(value) | err(error).
Ok(v) == [ok |-> TRUE, value |-> v]
Err == [ok |-> FALSE, value |-> EmptyText]

\* What one upstream call (fetch_predictions) for context p can return:
\* ok(text), ok("") on a preprocessor short-circuit, err(...) on an upstream
\* or guardrail failure.
FetchResults(p) == {Ok(p), Ok(EmptyText), Err}

\* No entry for the user in LatestOnly._latest.
NoLatest == [ctx |-> None, src |-> None]

\* An asyncio future that is not yet resolved, one that holds a result, and
\* one that was cancelled (done() is true, there is no result).
Pending == [done |-> FALSE, val |-> None]
Resolved(v) == [done |-> TRUE, val |-> v]
CancelledFut == [done |-> TRUE, val |-> None]

VARIABLES
    nCalls,     \* requests received so far; request c is the c-th to arrive
    taken,      \* taken[u]: the tokens acquired from the rate limiter of user u
    pc,         \* pc[c]: where request c's task is
    cUser,      \* cUser[c]: the user of request c
    cCtx,       \* cCtx[c]: the context request c carries
    ret,        \* ret[c]: the completion request c's response carries
    locks,      \* LatestOnly._locks[u].locked()
    latest,     \* LatestOnly._latest[u]: a context and the request it came from
    waiters,    \* LatestOnly._waiters[u]: futures, named by their request
    fut,        \* fut[c]: the future request c created in LatestOnly.run
    curP,       \* curP[c]: the context the running fn of runner c was given
    curFlight,  \* curFlight[c]: the flight runner c leads or joined
    futures,    \* SingleFlight._futures[k]: a flight, None when absent
    flights,    \* the shared futures SingleFlight created, in creation order
    cache,      \* suggest_cache[k], None when absent
    ready,      \* the event loop's queue of woken tasks, first in first out
    \* history variables: they record what happened and steer nothing
    arr,        \* arr[c]: the user's slot as request c found it on entering run
    fnLog,      \* fnLog[u]: the fn invocations for user u, in the order they started
    doneLog,    \* doneLog[u]: the texts fn returned for user u, in order
    resLog,     \* resLog[u]: for each text of doneLog, the runner and whether its Result was ok
    futBy,      \* futBy[c]: the index in doneLog of the text fut[c] was given
    joinSeen,   \* joinSeen[c]: what the last `await fut` of joiner c gave
    facOut,     \* facOut[f]: how the factory of flight f ended
    retOrder    \* retOrder[u]: the requests of u in the order their run call ended

\* The variables of the specifications of single components: they follow the
\* list of the program's variables.
VARIABLES
    now,        \* time.time(), in seconds
    ttlD,       \* _SimpleTTL._d[k]: a (value, expiry time) pair, NoEntry when absent
    lookup,     \* the last _SimpleTTL.get: when it ran, what it found and returned
    pipe,       \* the last run of predict.runner on its own: its input and what it did
    call,       \* the last call of a text function on its own: its arguments and results
    stream,     \* one run of a client's stream_chat_model: where it is and what it yielded
    user_limiters, \* rate_limit.user_limiters[u]: a bucket, None when absent
    limLog,     \* the calls of limiter_for so far: the user and the bucket returned
    capD        \* _SimpleTTL._d of a cache that is only stored to and looked up

compVars == << stream, user_limiters, limLog, capD >>
unitVars == << now, ttlD, lookup, pipe, call, compVars >>

progVars == << nCalls, taken, pc, cUser, cCtx, ret, locks, latest, waiters, fut, curP,
               curFlight, futures, flights, cache, ready >>
histVars == << arr, fnLog, doneLog, resLog, futBy, joinSeen, facOut, retOrder >>
vars == << progVars, histVars, unitVars >>

\* ---------------------------------------------------- texts as characters
\* A text is the sequence of its characters.  The cursor marker UNIQUE_CURSOR
\* (16 random characters) is written as one element.
UNIQUE_CURSOR == "<cursor>"
\* The backquote character, which a string of this module cannot hold.
BQ == "<backquote>"
DataviewOpen == << BQ, BQ, BQ, "d", "a", "t", "a", "v", "i", "e", "w" >>
Fence == << BQ, BQ, BQ >>
Mask == << "<", "m", "a", "s", "k", "/", ">" >>

\* Error and ok Results whose value is a text.
ErrText == [ok |-> FALSE, value |-> << >>]

\* pat occurs in t at position i; the first position from i on where it does
\* (0 when there is none); pat in t.
IsAt(t, i, pat) ==
    /\ i >= 1 /\ i + Len(pat) - 1 <= Len(t)
    /\ SubSeq(t, i, i + Len(pat) - 1) = pat
FirstAt(t, i, pat) ==
    LET S == {j \in i..Len(t) : IsAt(t, j, pat)}
    IN  IF S = {} THEN 0 ELSE CHOOSE j \in S : \A k \in S : j <= k
Contains(t, pat) == \E i \in 1..Len(t) : IsAt(t, i, pat)

\* The texts made of at most n of the pieces P.
RECURSIVE Concats(_, _)
Concats(P, n) ==
    IF n = 0 THEN {<< >>}
    ELSE Concats(P, n - 1) \cup {a \o b : a \in Concats(P, n - 1), b \in P}

\* The prefixes and suffixes of the pipeline's requests, and the completions
\* the post-processors hand to the guardrails.
ContextPieces == {<< "x" >>, DataviewOpen, Fence}
CompletionPieces == {<< " " >>, << "x" >>, Mask}
ContextTexts == Concats(ContextPieces, MaxPieces)
PostProcessed == {Ok(t) : t \in Concats(CompletionPieces, MaxPieces)} \cup {ErrText}

\* The state before the first run of the pipeline.
NoPipe ==
    [called |-> FALSE, prefix |-> << >>, suffix |-> << >>, ran |-> << >>,
     messages |-> << >>, upstream |-> 0, post |-> ErrText, result |-> ErrText,
     text |-> << >>, stored |-> FALSE]

\* The state before the first call of a text function.
NoCall == [fn |-> "none"]

\* A generator of stream_chat_model that was not created yet.
NoStream ==
    [client |-> "none", pc |-> "idle", items |-> 0, chunks |-> << >>,
     failed |-> "no", early |-> FALSE, queried |-> FALSE,
     query |-> [ok |-> FALSE, value |-> ""]]

\* The capacity cache.py gives the suggestion cache, and the keys stores
\* use: one more than the capacity.
MaxSize == 512
CapKeys == 1..(MaxSize + 1)

\* ------------------------------------------------------------------- Init
\* The time to live of suggest_cache, in seconds.
TTL == 20

\* No (value, expiry) pair under a key, and the state before the first lookup.
NoEntry == [val |-> None, exp |-> None]
NoLookup == [at |-> None, had |-> FALSE, exp |-> None, val |-> None, removed |-> FALSE]

NotJoined == [flight |-> None, state |-> "none", result |-> Err]

Init ==
    /\ nCalls = 0
    /\ taken = [u \in Users |-> 0]
    /\ pc = [c \in CallIds |-> "new"]
    /\ cUser = [c \in CallIds |-> "-"]
    /\ cCtx = [c \in CallIds |-> None]
    /\ ret = [c \in CallIds |-> None]
    /\ locks = [u \in Users |-> FALSE]
    /\ latest = [u \in Users |-> NoLatest]
    /\ waiters = [u \in Users |-> << >>]
    /\ fut = [c \in CallIds |-> Pending]
    /\ curP = [c \in CallIds |-> None]
    /\ curFlight = [c \in CallIds |-> None]
    /\ futures = [k \in Keys |-> None]
    /\ flights = << >>
    /\ cache = [k \in Keys |-> None]
    /\ ready = << >>
    /\ arr = [c \in CallIds |-> [entered |-> FALSE, locked |-> FALSE, fn |-> 0, done |-> 0]]
    /\ fnLog = [u \in Users |-> << >>]
    /\ doneLog = [u \in Users |-> << >>]
    /\ resLog = [u \in Users |-> << >>]
    /\ futBy = [c \in CallIds |-> 0]
    /\ joinSeen = [c \in CallIds |-> NotJoined]
    /\ facOut = << >>
    /\ retOrder = [u \in Users |-> << >>]
    /\ now = 0
    /\ ttlD = [k \in Keys |-> NoEntry]
    /\ lookup = NoLookup
    /\ pipe = NoPipe
    /\ call = NoCall
    /\ stream = NoStream
    /\ user_limiters = [u \in Users |-> None]
    /\ limLog = << >>
    /\ capD = << >>

\* ---------------------------------------------------------------- helpers
Range(q) == {q[i] : i \in 1..Len(q)}

\* suggest_cache.get(key): the entry's value while it is within its time to
\* live (live), a miss otherwise; an expired entry is removed by the lookup.
CacheGet(k, live) == IF live THEN cache[k] ELSE None
CacheAfterGet(k, live) == IF live THEN cache ELSE [cache EXCEPT ![k] = None]

\* predict: cached is not None and isinstance(cached, str) and cached != ""
CacheHit(k, live) == CacheGet(k, live) # None /\ CacheGet(k, live) # EmptyText

\* the text of the runner, were an error Result to give None
RunnerText_ErrAsNone(res) == IF res.ok THEN res.value ELSE None

\* runner: text = res.value if res.is_ok() else ""
RunnerText(res) == IF res.ok THEN res.value ELSE EmptyText

\* the store, were it made for every text
CacheStore_Always(k, text) == [cache EXCEPT ![k] = text]

\* runner: if text: suggest_cache[k] = text
CacheStore(k, text) == IF text # EmptyText THEN [cache EXCEPT ![k] = text] ELSE cache

\* the handler, were it not to enter the limiter
LimiterEnter_None(u) == taken

\* async with limiter_for(user): the handler body starts once the user's
\* limiter let the request in, which takes one token of the user's bucket.  A
\* request the limiter holds back has not touched any state yet, so a request
\* arrives, in this model, when its token is acquired.
LimiterEnter(u) == [taken EXCEPT ![u] = @ + 1]

\* lock.locked(), were the lock never seen as held
Locked_Never(u) == FALSE

\* lock.locked(), were the users to share one lock
Locked_AnyUser(u) == \E v \in Users : locks[v]

\* lock.locked()
Locked(u) == locks[u]

\* the latest slot, were it written only when empty
LatestPut_KeepFirst(u, x, c) ==
    IF latest[u] = NoLatest THEN [latest EXCEPT ![u] = [ctx |-> x, src |-> c]] ELSE latest

\* self._latest[user_id] = (prefix, suffix), submitted by request c
LatestPut(u, x, c) == [latest EXCEPT ![u] = [ctx |-> x, src |-> c]]

\* the flight lookup, were it always a miss
FuturesGet_Miss(futs, k) == None

\* self._futures.get(key)
FuturesGet(futs, k) == futs[k]

\* the leader's except branch, were it to resolve the future with an error
\* Result instead of the exception
SetException_AsResult(fl) == [fl EXCEPT !.state = "result", !.result = Err]

\* fut.set_result(result) and fut.set_exception(e) of the leader.
SetResult(fl, res) == [fl EXCEPT !.state = "result", !.result = res]
SetException(fl) == [fl EXCEPT !.state = "exception"]

\* the leader's finally clause, were it to leave the key in the map
FuturesPop_Keep(futs, k) == futs

\* finally: self._futures.pop(key, None)
FuturesPop(futs, k) == [futs EXCEPT ![k] = None]

\* How a factory invocation ended: the Result it returned, or an exception.
Returned(res) == [state |-> "result", result |-> res]
Raised == [state |-> "exception", result |-> Err]
Running == [state |-> "pending", result |-> Err]
CancelledCall == [state |-> "cancelled", result |-> Err]

\* the key of the runner's store, were it the key of the request
StoreKey_OfRequest(c) == ReqKey(cCtx[c])

\* k = _req_key(provider, model, p, s) in predict.runner: the fingerprint of
\* the context fn was given
StoreKey(c) == ReqKey(curP[c])

\* the pop of the latest slot, were it to leave the context in place
LatestPop_Keep(lat, u) == lat

\* self._latest.pop(user_id, (None, None))
LatestPop(lat, u) == [lat EXCEPT ![u] = NoLatest]

\* the resolve loop, were it to stop after the first waiter
WaitersToResolve_HeadOnly(u) ==
    IF waiters[u] = << >> THEN << >>
    ELSE SelectSeq(<< Head(waiters[u]) >>, LAMBDA w : ~fut[w].done)

\* waiters = self._waiters.pop(user_id, []); the ones set_result is called on
WaitersToResolve(u) == SelectSeq(waiters[u], LAMBDA w : ~fut[w].done)


\* --------------------------------------------------------- SingleFlight.do
\* A joiner whose `await fut` finds the shared future already cancelled (by
\* the cancellation of an earlier joiner) does not suspend: CancelledError is
\* raised at once and leaves do, fn and run.
JoinsCancelled(p, futs, fls) ==
    LET f == FuturesGet(futs, ReqKey(p))
    IN  f # None /\ fls[f].state = "cancelled"

\* Runner c of user u calls fn(p, s), that is predict.runner, which calls
\* _sf.do(k, call): it joins the flight of k when there is one, and otherwise
\* creates the flight and starts the factory (the upstream call).  src is the
\* request that submitted p.
StartFn(c, u, p, src, futs, fls, fo) ==
    LET k == ReqKey(p)
        f == FuturesGet(futs, k)
        n == Len(fls) + 1
    IN  /\ curP' = [curP EXCEPT ![c] = p]
        /\ fnLog' = [fnLog EXCEPT ![u] = Append(@, [ctx |-> p, src |-> src, runner |-> c])]
        /\ IF JoinsCancelled(p, futs, fls)
           THEN /\ pc' = [pc EXCEPT ![c] = "cancelled"]
                /\ curFlight' = [curFlight EXCEPT ![c] = f]
                /\ futures' = futs
                /\ flights' = fls
                /\ facOut' = fo
           ELSE IF f # None
           THEN /\ pc' = [pc EXCEPT ![c] = "sf_join"]
                /\ curFlight' = [curFlight EXCEPT ![c] = f]
                /\ futures' = futs
                /\ flights' = [fls EXCEPT ![f].joiners = Append(@, c)]
                /\ facOut' = fo
           ELSE /\ pc' = [pc EXCEPT ![c] = "sf_factory"]
                /\ curFlight' = [curFlight EXCEPT ![c] = n]
                /\ futures' = [futs EXCEPT ![k] = n]
                /\ flights' = Append(fls, [key |-> k, leader |-> c, state |-> "pending",
                                           result |-> Err, joiners |-> << >>])
                /\ facOut' = Append(fo, Running)

\* ---------------------------------------------------------- LatestOnly.run
\* The run call of request c ends: with the text it returns, or with the
\* exception fn raised.  Leaving `async with lock` releases the user's lock.
EndRun(c, u, how, text) ==
    /\ pc' = [pc EXCEPT ![c] = how]
    /\ ret' = [ret EXCEPT ![c] = text]
    /\ retOrder' = [retOrder EXCEPT ![u] = Append(@, c)]
    /\ locks' = [locks EXCEPT ![u] = FALSE]

\* fn raised in runner c: the exception leaves run through `async with lock`;
\* the waiter list and the latest slot stay as they are.
RunRaise(c, futs, fls, rdy, fo) ==
    /\ EndRun(c, cUser[c], "failed", None)
    /\ futures' = futs
    /\ flights' = fls
    /\ ready' = rdy
    /\ facOut' = fo
    /\ UNCHANGED << nCalls, taken, cUser, cCtx, latest, waiters, fut, curP, curFlight, cache,
                    arr, fnLog, doneLog, resLog, futBy >>

\* The body of the dispatch loop after `result = await fn(p, s)`: fn (the
\* runner of predict) got res from SingleFlight, stored a non-empty text in
\* the cache and returned the text; every waiter is resolved with it; then the
\* loop takes the latest context, or ends when there is none.
AfterFn(c, res, futs, fls, rdy, fo) ==
    LET u == cUser[c]
        text == RunnerText(res)
        ws == WaitersToResolve(u)
        last == latest[u] = NoLatest
        n == Len(doneLog[u]) + 1
    IN  /\ cache' = CacheStore(StoreKey(c), text)
        /\ doneLog' = [doneLog EXCEPT ![u] = Append(@, text)]
        /\ resLog' = [resLog EXCEPT ![u] = Append(@, [ok |-> res.ok, runner |-> c])]
        /\ waiters' = [waiters EXCEPT ![u] = << >>]
        /\ fut' = [w \in CallIds |->
                     IF w \in Range(ws) \/ (last /\ w = c /\ ~fut[c].done)
                     THEN Resolved(text) ELSE fut[w]]
        /\ futBy' = [w \in CallIds |-> IF w \in Range(ws) THEN n ELSE futBy[w]]
        /\ ready' = rdy \o SelectSeq(ws, LAMBDA w : pc[w] = "await_fut")
        /\ IF last
           THEN /\ EndRun(c, u, "done", text)
                /\ futures' = futs
                /\ flights' = fls
                /\ facOut' = fo
                /\ UNCHANGED << latest, curP, curFlight, fnLog >>
           ELSE /\ latest' = LatestPop(latest, u)
                /\ StartFn(c, u, latest[u].ctx, latest[u].src, futs, fls, fo)
                /\ IF JoinsCancelled(latest[u].ctx, futs, fls)
                   THEN /\ retOrder' = [retOrder EXCEPT ![u] = Append(@, c)]
                        /\ locks' = [locks EXCEPT ![u] = FALSE]
                   ELSE UNCHANGED << retOrder, locks >>
                /\ UNCHANGED ret
        /\ UNCHANGED << nCalls, taken, cUser, cCtx, arr >>

\* ---------------------------------------------------------------- actions
\* What a new request finds in its user's slot on entering run.
Arrival(u) ==
    [entered |-> TRUE, locked |-> locks[u], fn |-> Len(fnLog[u]), done |-> Len(doneLog[u])]

\* POST /predict of user u with context x, answered from the cache.
PredictHit(u, x) ==
    LET c == nCalls + 1 IN
    /\ nCalls < MaxCalls
    /\ CacheHit(ReqKey(x), TRUE)
    /\ nCalls' = c
    /\ taken' = LimiterEnter(u)
    /\ cUser' = [cUser EXCEPT ![c] = u]
    /\ cCtx' = [cCtx EXCEPT ![c] = x]
    /\ pc' = [pc EXCEPT ![c] = "done"]
    /\ ret' = [ret EXCEPT ![c] = CacheGet(ReqKey(x), TRUE)]
    /\ UNCHANGED << locks, latest, waiters, fut, curP, curFlight, futures, flights,
                    cache, ready, histVars >>
    /\ UNCHANGED unitVars

\* POST /predict, cache miss (no entry, or an entry that has expired), the
\* user's lock is held: run stores the context as latest, registers its future
\* and awaits it.
PredictWait(u, x, live) ==
    LET c == nCalls + 1 IN
    /\ nCalls < MaxCalls
    /\ ~CacheHit(ReqKey(x), live)
    /\ cache' = CacheAfterGet(ReqKey(x), live)
    /\ Locked(u)
    /\ nCalls' = c
    /\ taken' = LimiterEnter(u)
    /\ cUser' = [cUser EXCEPT ![c] = u]
    /\ cCtx' = [cCtx EXCEPT ![c] = x]
    /\ latest' = LatestPut(u, x, c)
    /\ waiters' = [waiters EXCEPT ![u] = Append(@, c)]
    /\ pc' = [pc EXCEPT ![c] = "await_fut"]
    /\ arr' = [arr EXCEPT ![c] = Arrival(u)]
    /\ UNCHANGED << ret, locks, fut, curP, curFlight, futures, flights, ready,
                    fnLog, doneLog, resLog, futBy, joinSeen, facOut, retOrder >>
    /\ UNCHANGED unitVars

\* POST /predict, cache miss, the user's lock is free: run stores the context,
\* registers its future, takes the lock, pops the latest context and calls fn.
PredictRun(u, x, live) ==
    LET c == nCalls + 1
        lat == LatestPut(u, x, c)
    IN
    /\ nCalls < MaxCalls
    /\ ~CacheHit(ReqKey(x), live)
    /\ cache' = CacheAfterGet(ReqKey(x), live)
    /\ ~Locked(u)
    /\ nCalls' = c
    /\ taken' = LimiterEnter(u)
    /\ cUser' = [cUser EXCEPT ![c] = u]
    /\ cCtx' = [cCtx EXCEPT ![c] = x]
    /\ waiters' = [waiters EXCEPT ![u] = Append(@, c)]
    /\ latest' = LatestPop(lat, u)
    /\ arr' = [arr EXCEPT ![c] = Arrival(u)]
    /\ StartFn(c, u, lat[u].ctx, lat[u].src, futures, flights, facOut)
    /\ IF JoinsCancelled(lat[u].ctx, futures, flights)
       THEN /\ retOrder' = [retOrder EXCEPT ![u] = Append(@, c)]
            /\ UNCHANGED locks
       ELSE /\ locks' = [locks EXCEPT ![u] = TRUE]
            /\ UNCHANGED retOrder
    /\ UNCHANGED << ret, fut, ready, doneLog, resLog, futBy, joinSeen >>
    /\ UNCHANGED unitVars

\* The upstream call of leader c returns a Result within the 12 s ceiling: the
\* leader resolves the shared future, removes the key, and its fn goes on.
FactoryReturn(c) ==
    /\ pc[c] = "sf_factory"
    /\ flights[curFlight[c]].state = "pending"
    /\ \E res \in FetchResults(curP[c]) :
         LET f == curFlight[c] IN
         AfterFn(c, res,
                 FuturesPop(futures, flights[f].key),
                 [flights EXCEPT ![f] = SetResult(@, res)],
                 ready \o flights[f].joiners,
                 [facOut EXCEPT ![f] = Returned(res)])
    /\ UNCHANGED joinSeen
    /\ UNCHANGED unitVars

\* The upstream call of leader c exceeds the ceiling: asyncio.wait_for raises
\* TimeoutError, the leader sets it on the shared future, removes the key and
\* re-raises; the exception leaves fn and run.
FactoryRaise(c) ==
    /\ pc[c] = "sf_factory"
    /\ flights[curFlight[c]].state = "pending"
    /\ LET f == curFlight[c] IN
         RunRaise(c,
                  FuturesPop(futures, flights[f].key),
                  [flights EXCEPT ![f] = SetException(@)],
                  ready \o flights[f].joiners,
                  [facOut EXCEPT ![f] = Raised])
    /\ UNCHANGED joinSeen
    /\ UNCHANGED unitVars

\* The event loop resumes the first woken task: a waiter, whose `await fut`
\* gives the text the future holds; run returns it.
ResumeWaiter ==
    /\ ready # << >>
    /\ LET c == Head(ready) IN
         /\ pc[c] = "await_fut"
         /\ pc' = [pc EXCEPT ![c] = "done"]
         /\ ret' = [ret EXCEPT ![c] = fut[c].val]
         /\ retOrder' = [retOrder EXCEPT ![cUser[c]] = Append(@, c)]
         /\ ready' = Tail(ready)
    /\ UNCHANGED << nCalls, taken, cUser, cCtx, locks, latest, waiters, fut, curP, curFlight,
                    futures, flights, cache, arr, fnLog, doneLog, resLog, futBy, joinSeen,
                    facOut >>
    /\ UNCHANGED unitVars

\* The event loop resumes the first woken task: a joiner, whose `await fut`
\* gives the leader's Result; its fn goes on as the leader's did.
ResumeJoiner ==
    /\ ready # << >>
    /\ LET c == Head(ready)
           fl == flights[curFlight[c]]
       IN  /\ pc[c] = "sf_join"
           /\ fl.state = "result"
           /\ joinSeen' = [joinSeen EXCEPT ![c] = [flight |-> curFlight[c],
                                                   state |-> fl.state, result |-> fl.result]]
           /\ AfterFn(c, fl.result, futures, flights, Tail(ready), facOut)
    /\ UNCHANGED unitVars

\* The same, when the shared future holds the leader's exception: it is raised
\* in the joiner and leaves its fn and its run.
ResumeJoinerRaise ==
    /\ ready # << >>
    /\ LET c == Head(ready)
           fl == flights[curFlight[c]]
       IN  /\ pc[c] = "sf_join"
           /\ fl.state = "exception"
           /\ joinSeen' = [joinSeen EXCEPT ![c] = [flight |-> curFlight[c],
                                                   state |-> fl.state, result |-> fl.result]]
           /\ RunRaise(c, futures, flights, Tail(ready), facOut)
    /\ UNCHANGED unitVars

Next ==
    \/ \E u \in TwoUsers, x \in PlainContexts : PredictHit(u, x)
    \/ \E u \in TwoUsers, x \in PlainContexts, live \in BOOLEAN : PredictWait(u, x, live)
    \/ \E u \in TwoUsers, x \in PlainContexts, live \in BOOLEAN : PredictRun(u, x, live)
    \/ \E c \in CallIds : FactoryReturn(c)
    \/ \E c \in CallIds : FactoryRaise(c)
    \/ ResumeWaiter
    \/ ResumeJoiner
    \/ ResumeJoinerRaise

Spec == Init /\ [][Next]_vars

\* The same program when every upstream call returns within the ceiling (no fn
\* invocation raises), every upstream call ends and the event loop runs every
\* woken task.
LiveNext ==
    \/ \E u \in TwoUsers, x \in PlainContexts : PredictHit(u, x)
    \/ \E u \in TwoUsers, x \in PlainContexts, live \in BOOLEAN : PredictWait(u, x, live)
    \/ \E u \in TwoUsers, x \in PlainContexts, live \in BOOLEAN : PredictRun(u, x, live)
    \/ \E c \in CallIds : FactoryReturn(c)
    \/ ResumeWaiter
    \/ ResumeJoiner

LiveSpec ==
    /\ Init
    /\ [][LiveNext]_vars
    /\ \A c \in CallIds : WF_vars(FactoryReturn(c))
    /\ WF_vars(ResumeWaiter)
    /\ WF_vars(ResumeJoiner)

\* ------------------------------------------------- cache.py: _SimpleTTL
\* The fallback cache on its own, with the clock: stores, lookups and the
\* passing of time.
\* __setitem__: self._d[k] = (v, time.time() + self.ttl)
SimpleTTL_setitem(d, k, v, t) == [d EXCEPT ![k] = [val |-> v, exp |-> t + TTL]]

\* get: `if not v: return default`, then `if time.time() > exp`: pop and
\* return default; else return val.
SimpleTTL_expired(d, k, t) == d[k] # NoEntry /\ t > d[k].exp
SimpleTTL_get(d, k, t) ==
    IF d[k] = NoEntry THEN None
    ELSE IF SimpleTTL_expired(d, k, t) THEN None ELSE d[k].val
SimpleTTL_after_get(d, k, t) ==
    IF SimpleTTL_expired(d, k, t) THEN [d EXCEPT ![k] = NoEntry] ELSE d

\* suggest_cache[k] = text, for a non-empty text.
CacheSet(k, v) ==
    /\ ttlD' = SimpleTTL_setitem(ttlD, k, v, now)
    /\ UNCHANGED << now, lookup, pipe, call, progVars, histVars, compVars >>

\* suggest_cache.get(k)
CacheLookup(k) ==
    /\ ttlD' = SimpleTTL_after_get(ttlD, k, now)
    /\ lookup' = [at |-> now, had |-> ttlD[k] # NoEntry, exp |-> ttlD[k].exp,
                  val |-> SimpleTTL_get(ttlD, k, now),
                  removed |-> SimpleTTL_after_get(ttlD, k, now)[k] = NoEntry]
    /\ UNCHANGED << now, pipe, call, progVars, histVars, compVars >>

\* Time passes: d seconds.
Tick(d) ==
    /\ now + d <= MaxTime
    /\ now' = now + d
    /\ UNCHANGED << ttlD, lookup, pipe, call, progVars, histVars, compVars >>

\* The clock moves by the time to live, a second less or a second more.
CacheNext ==
    \/ \E k \in Keys, v \in PlainContexts : CacheSet(k, v)
    \/ \E k \in Keys : CacheLookup(k)
    \/ \E d \in {TTL - 1, TTL, TTL + 1} : Tick(d)

CacheSpec == Init /\ [][CacheNext]_vars

\* ------------------------------------- the pipeline of fetch_predictions
\* DATA_VIEW_REGEX.finditer(text) from position i: the leftmost opening fence
\* of a dataview block, then (lazily) up to the first fence after it; the search
\* goes on after the match.  The optional "js" does not move the match: a
\* closing fence cannot begin inside it.
RECURSIVE finditer(_, _)
finditer(t, i) ==
    LET s == FirstAt(t, i, DataviewOpen)
        e == IF s = 0 THEN 0 ELSE FirstAt(t, s + Len(DataviewOpen), Fence)
    IN  IF s = 0 \/ e = 0 THEN << >>
        ELSE << [start |-> s, end |-> e + Len(Fence) - 1] >> \o finditer(t, e + Len(Fence))

\* DataViewRemover.removes_cursor: some match holds the cursor.
removes_cursor(prefix, suffix) ==
    LET text == prefix \o << UNIQUE_CURSOR >> \o suffix
        ms == finditer(text, 1)
    IN  \E n \in 1..Len(ms) : ms[n].start <= Len(prefix) + 1 /\ Len(prefix) + 1 <= ms[n].end

\* The characters lo..hi of t that are in no match.
RECURSIVE Kept(_, _, _, _)
Kept(t, ms, lo, hi) ==
    IF lo > hi THEN << >>
    ELSE (IF \E n \in 1..Len(ms) : ms[n].start <= lo /\ lo <= ms[n].end
          THEN << >> ELSE << t[lo] >>) \o Kept(t, ms, lo + 1, hi)

\* DataViewRemover.process: DATA_VIEW_REGEX.sub("", text), split at the cursor.
DataViewRemover_process(prefix, suffix) ==
    LET text == prefix \o << UNIQUE_CURSOR >> \o suffix
        ms == finditer(text, 1)
    IN  [prefix |-> Kept(text, ms, 1, Len(prefix)),
         suffix |-> Kept(text, ms, Len(prefix) + 2, Len(text))]

\* Settings: max_prefix_char_limit and max_suffix_char_limit.
MaxPrefix == 5000
MaxSuffix == 500

\* s[i:] and s[:j] of Python for any integers i and j: a negative index
\* counts from the end, and an index beyond the text is cut to it.
SliceIndex(s, i) ==
    IF i < 0 THEN (IF Len(s) + i < 0 THEN 0 ELSE Len(s) + i)
    ELSE (IF i > Len(s) THEN Len(s) ELSE i)
SliceFrom(s, i) == SubSeq(s, SliceIndex(s, i) + 1, Len(s))
SliceTo(s, j) == SubSeq(s, 1, SliceIndex(s, j))

\* LengthLimiter(max_prefix, max_suffix).process: prefix[-max_prefix:] and
\* suffix[:max_suffix]; removes_cursor returns False.
LengthLimiter_limit(max_prefix, max_suffix, prefix, suffix) ==
    [prefix |-> SliceFrom(prefix, 0 - max_prefix),
     suffix |-> SliceTo(suffix, max_suffix)]
LengthLimiter_removes_cursor(prefix, suffix) == FALSE

\* LengthLimiter.process with the limits of the settings.
LengthLimiter_process(prefix, suffix) ==
    LengthLimiter_limit(MaxPrefix, MaxSuffix, prefix, suffix)

\* from_settings: pre = [DataViewRemover(), LengthLimiter(...)]
pre_processors == << "DataViewRemover", "LengthLimiter" >>

\* the test of the loop, were it never to report the cursor as removed
PreRemovesCursor_Never(p, prefix, suffix) == FALSE

\* getattr(p, "removes_cursor")(prefix, suffix) and p.process(prefix, suffix, context)
PreRemovesCursor(p, prefix, suffix) ==
    IF p = "DataViewRemover" THEN removes_cursor(prefix, suffix) ELSE FALSE
PreProcess(p, prefix, suffix) ==
    IF p = "DataViewRemover" THEN DataViewRemover_process(prefix, suffix)
    ELSE LengthLimiter_process(prefix, suffix)

\* The loop of build_messages over the preprocessors from the i-th on: it
\* stops at the first one that reports the cursor as removed; ran lists the
\* preprocessors whose process was called.
RECURSIVE PreLoop(_, _, _, _)
PreLoop(i, prefix, suffix, ran) ==
    IF i > Len(pre_processors)
    THEN [short |-> FALSE, prefix |-> prefix, suffix |-> suffix, ran |-> ran]
    ELSE IF PreRemovesCursor(pre_processors[i], prefix, suffix)
         THEN [short |-> TRUE, prefix |-> prefix, suffix |-> suffix, ran |-> ran]
         ELSE LET res == PreProcess(pre_processors[i], prefix, suffix)
              IN  PreLoop(i + 1, res.prefix, res.suffix, Append(ran, pre_processors[i]))

\* build_messages: no messages on a short-circuit, else the system message
\* and the user message rendered from the processed prefix and suffix (the
\* few-shot pairs of the context, constant texts, go between the two).
build_messages(prefix, suffix) ==
    LET r == PreLoop(1, prefix, suffix, << >>)
    IN  IF r.short THEN << >>
        ELSE << [role |-> "system", prefix |-> << >>, suffix |-> << >>],
                [role |-> "user", prefix |-> r.prefix, suffix |-> r.suffix] >>

\* str.strip() leaves nothing: every character is white space.
Whitespace == {" ", "\n", "\t"}
StripsToEmpty(v) == \A i \in 1..Len(v) : v[i] \in Whitespace

\* the guardrails, were the test for the sentinel missing
guardrails_NoMaskTest(result) ==
    IF ~result.ok THEN result
    ELSE IF StripsToEmpty(result.value) THEN ErrText ELSE Ok(result.value)

\* _guardrails
guardrails(result) ==
    IF ~result.ok THEN result
    ELSE IF StripsToEmpty(result.value) THEN ErrText
    ELSE IF Contains(result.value, Mask) THEN ErrText
    ELSE Ok(result.value)

\* fetch_predictions: ok("") without an upstream call when there are no
\* messages; else the upstream call, _extract_answer and the post-processors,
\* which give post, and the guardrails on it.
fetch_predictions(prefix, suffix, post) ==
    LET messages == build_messages(prefix, suffix)
    IN  IF Len(messages) = 0
        THEN [messages |-> messages, upstream |-> 0, result |-> Ok(<< >>)]
        ELSE [messages |-> messages, upstream |-> 1, result |-> guardrails(post)]

\* runner, on texts: text = res.value if res.is_ok() else "", and whether
\* `if text:` lets the store happen.
runner_text(res) == IF res.ok THEN res.value ELSE << >>
runner_stores(text) == text # << >>

\* What one run of predict.runner leaves: f is what fetch_predictions did, ran
\* the preprocessors whose process was called.
RunnerRecord(prefix, suffix, post, f, ran) ==
    [called |-> TRUE, prefix |-> prefix, suffix |-> suffix,
     ran |-> ran,
     messages |-> f.messages,
     upstream |-> f.upstream,
     post |-> IF f.upstream = 1 THEN post ELSE ErrText,
     result |-> f.result,
     text |-> runner_text(f.result),
     stored |-> runner_stores(runner_text(f.result))]

\* One run of predict.runner for (prefix, suffix), from build_messages to the
\* store in the cache; post is what the upstream call and the post-processors
\* give when the call is made.
Pipeline(prefix, suffix, post) ==
    /\ pipe' = RunnerRecord(prefix, suffix, post,
                            fetch_predictions(prefix, suffix, post),
                            PreLoop(1, prefix, suffix, << >>).ran)
    /\ UNCHANGED << now, ttlD, lookup, call, progVars, histVars, compVars >>

\* A behaviour holds one run of the pipeline.
PipeNext ==
    /\ ~pipe.called
    /\ \E prefix \in ContextTexts, suffix \in ContextTexts, post \in PostProcessed :
         Pipeline(prefix, suffix, post)

PipeSpec == Init /\ [][PipeNext]_vars

\* ------------------------------------- post_processors/remove_overlap.py
\* Positions of a text are counted from 1 here, from 0 in the source.
\* _is_ws: ch.isspace()
is_ws(ch) == ch \in Whitespace

\* The elements of a set of numbers in ascending order.
RECURSIVE Ascending(_)
Ascending(S) ==
    IF S = {} THEN << >>
    ELSE LET m == CHOOSE x \in S : \A y \in S : x <= y
         IN  << m >> \o Ascending(S \ {m})

\* _start_locations: where a word starts, in ascending order.
start_locations(text) ==
    Ascending({i \in 1..Len(text) :
                 /\ ~is_ws(text[i])
                 /\ i = 1 \/ is_ws(text[i - 1])})

\* str.lstrip(), str.rstrip() and _remove_leading_ws
RECURSIVE lstrip(_)
lstrip(s) == IF s # << >> /\ is_ws(s[1]) THEN lstrip(Tail(s)) ELSE s
RECURSIVE rstrip(_)
rstrip(s) == IF s # << >> /\ is_ws(s[Len(s)]) THEN rstrip(SubSeq(s, 1, Len(s) - 1)) ELSE s
RECURSIVE remove_leading_ws(_)
remove_leading_ws(completion) ==
    IF completion # << >> /\ is_ws(completion[1])
    THEN remove_leading_ws(Tail(completion)) ELSE completion

\* str.startswith, and s[n:]
startswith(s, p) == Len(p) <= Len(s) /\ SubSeq(s, 1, Len(p)) = p
From(s, n) == SubSeq(s, n, Len(s))

\* The loop of _remove_word_overlap_prefix: starts.pop() takes the last start;
\* the first tail that begins the trimmed completion is cut from it (replace
\* with count 1 cuts the occurrence at the front).
RECURSIVE word_loop_prefix(_, _, _, _)
word_loop_prefix(prefix, completion, right_trimmed, starts) ==
    IF starts = << >> THEN completion
    ELSE LET idx == starts[Len(starts)]
             left_sub == From(prefix, idx)
         IN  IF startswith(right_trimmed, left_sub)
             THEN From(right_trimmed, Len(left_sub) + 1)
             ELSE word_loop_prefix(prefix, completion, right_trimmed,
                                   SubSeq(starts, 1, Len(starts) - 1))

remove_word_overlap_prefix(prefix, completion) ==
    word_loop_prefix(prefix, completion, lstrip(completion), start_locations(prefix))

\* The loop of _remove_word_overlap_suffix.
RECURSIVE word_loop_suffix(_, _, _)
word_loop_suffix(completion, suffix_trimmed, starts) ==
    IF starts = << >> THEN completion
    ELSE LET idx == starts[Len(starts)]
             comp_sub == From(completion, idx)
         IN  IF startswith(suffix_trimmed, comp_sub)
             THEN SubSeq(completion, 1, idx - 1)
             ELSE word_loop_suffix(completion, suffix_trimmed,
                                   SubSeq(starts, 1, Len(starts) - 1))

remove_word_overlap_suffix(completion, suffix) ==
    word_loop_suffix(completion, remove_leading_ws(suffix), start_locations(completion))

\* _remove_ws_overlap_prefix from prefix position i downwards
RECURSIVE ws_loop_prefix(_, _, _)
ws_loop_prefix(prefix, completion, i) ==
    IF completion # << >> /\ i >= 1 /\ completion[1] = prefix[i]
    THEN ws_loop_prefix(prefix, Tail(completion), i - 1)
    ELSE completion

remove_ws_overlap_prefix(prefix, completion) ==
    ws_loop_prefix(prefix, completion, Len(prefix))

\* _remove_ws_overlap_suffix from suffix position i upwards
RECURSIVE ws_loop_suffix(_, _, _)
ws_loop_suffix(completion, suffix, i) ==
    IF completion # << >> /\ i <= Len(suffix) /\ completion[Len(completion)] = suffix[i]
    THEN ws_loop_suffix(SubSeq(completion, 1, Len(completion) - 1), suffix, i + 1)
    ELSE completion

remove_ws_overlap_suffix(completion, suffix) ==
    ws_loop_suffix(completion, suffix, 1)

\* RemoveOverlap.process
RemoveOverlap_process(prefix, suffix, completion) ==
    remove_ws_overlap_suffix(
        remove_ws_overlap_prefix(prefix,
            remove_word_overlap_suffix(
                remove_word_overlap_prefix(prefix, completion), suffix)),
        suffix)

\* The texts of at most n characters of the set C.
TextsOf(C, n) == UNION {[1..k -> C] : k \in 0..n}

\* The texts RemoveOverlap is called on.
OverlapChars == {"a", "b", " "}
OverlapPrefixes == TextsOf(OverlapChars, MaxPrefixLen)
OverlapSuffixes == TextsOf(OverlapChars, MaxSuffixLen)
OverlapCompletions == TextsOf(OverlapChars, MaxCompletionLen)

\* One call of RemoveOverlap.process; word is what its first step,
\* _remove_word_overlap_prefix, gives.
Overlap(prefix, suffix, completion) ==
    /\ call' = [fn |-> "RemoveOverlap", prefix |-> prefix, suffix |-> suffix,
                completion |-> completion,
                word |-> remove_word_overlap_prefix(prefix, completion),
                out |-> RemoveOverlap_process(prefix, suffix, completion)]
    /\ UNCHANGED << now, ttlD, lookup, pipe, progVars, histVars, compVars >>

\* A behaviour holds one call.
OverlapNext ==
    /\ call = NoCall
    /\ \E prefix \in OverlapPrefixes, suffix \in OverlapSuffixes,
          completion \in OverlapCompletions :
         Overlap(prefix, suffix, completion)

OverlapSpec == Init /\ [][OverlapNext]_vars

\* ------------------------------------------------- regular expressions
\* The patterns of the sources are sequences of items: a class of characters
\* (the characters of S, or the ones not in S when neg holds) taken once
\* ("1"), at most once ("?"), any number of times ("*") or at least once
\* ("+"), or one of the anchors "^" and "$" of re.M.  A position is the
\* number of characters before it.
Item(S, neg, q) == [S |-> S, neg |-> neg, q |-> q]
Lit(c) == Item({c}, FALSE, "1")
Bol == Item({}, FALSE, "^")
Eol == Item({}, FALSE, "$")
Digits == {"0", "1", "2", "3", "4", "5", "6", "7", "8", "9"}
Letters ==
    {"a", "b", "c", "d", "e", "f", "g", "h", "i", "j", "k", "l", "m",
     "n", "o", "p", "q", "r", "s", "t", "u", "v", "w", "x", "y", "z",
     "A", "B", "C", "D", "E", "F", "G", "H", "I", "J", "K", "L", "M",
     "N", "O", "P", "Q", "R", "S", "T", "U", "V", "W", "X", "Y", "Z"}
\* `.` (every character but the newline) and [\s\S] (every character)
Dot(q) == Item({"\n"}, TRUE, q)
AnyChar(q) == Item({}, TRUE, q)

ItemMatches(item, ch) == (ch \in item.S) # item.neg

\* The positions an item can lead to from the positions P.
StepOne(item, text, P) ==
    {p + 1 : p \in {r \in P : r < Len(text) /\ ItemMatches(item, text[r + 1])}}
StepMany(item, text, P) ==
    {e \in 0..Len(text) :
       \E p \in P : p <= e /\ \A j \in (p + 1)..e : ItemMatches(item, text[j])}
Step(item, text, P) ==
    CASE item.q = "1" -> StepOne(item, text, P)
      [] item.q = "?" -> P \cup StepOne(item, text, P)
      [] item.q = "*" -> StepMany(item, text, P)
      [] item.q = "+" -> StepMany(item, text, StepOne(item, text, P))
      [] item.q = "^" -> {p \in P : p = 0 \/ text[p] = "\n"}
      [] item.q = "$" -> {p \in P : p = Len(text) \/ text[p + 1] = "\n"}

\* The positions where a match of the items from the k-th on can end when it
\* is at one of the positions P; the ends of the matches that start at i.
RECURSIVE Ends(_, _, _, _)
Ends(items, k, text, P) ==
    IF k > Len(items) \/ P = {} THEN P
    ELSE Ends(items, k + 1, text, Step(items[k], text, P))
MatchEnds(items, text, i) == Ends(items, 1, text, {i})

\* re.search: the pattern matches somewhere.
re_search(items, text) == \E i \in 0..Len(text) : MatchEnds(items, text, i) # {}

SetMin(S) == CHOOSE x \in S : \A y \in S : x <= y
SetMax(S) == CHOOSE x \in S : \A y \in S : x >= y

\* The matches of findall, finditer and sub from position pos on, as the
\* first and the last character of each: the leftmost start, and from it the
\* shortest match when the pattern's quantifier is lazy, else the longest (the
\* greedy items of these patterns take classes that exclude what follows them,
\* so the match the engine prefers is the longest); the scan goes on where
\* the match ended.
RECURSIVE re_matches(_, _, _, _)
re_matches(items, lazy, text, pos) ==
    LET S == {i \in pos..Len(text) : MatchEnds(items, text, i) # {}}
    IN  IF S = {} THEN << >>
        ELSE LET s == SetMin(S)
                 e == IF lazy THEN SetMin(MatchEnds(items, text, s))
                      ELSE SetMax(MatchEnds(items, text, s))
             IN  << [start |-> s + 1, end |-> e] >>
                 \o re_matches(items, lazy, text, IF e = s THEN s + 1 ELSE e)

\* re.sub(pattern, "", text)
re_sub(items, lazy, text) == Kept(text, re_matches(items, lazy, text, 0), 1, Len(text))

\* ------------------------------------------------- context_detection.py
\* HEADER_REGEX = ^#+\s.*CURSOR.*$
HEADER_REGEX ==
    << Bol, Item({"#"}, FALSE, "+"), Item(Whitespace, FALSE, "1"), Dot("*"),
       Lit(UNIQUE_CURSOR), Dot("*"), Eol >>
\* UNORDERED_LIST_REGEX = ^\s*(-|\*)\s.*CURSOR.*$
UNORDERED_LIST_REGEX ==
    << Bol, Item(Whitespace, FALSE, "*"), Item({"-", "*"}, FALSE, "1"),
       Item(Whitespace, FALSE, "1"), Dot("*"), Lit(UNIQUE_CURSOR), Dot("*"), Eol >>
\* TASK_LIST_REGEX = ^\s*(-|[0-9]+\.) +\[.\]\s.*CURSOR.*$, one pattern for
\* each side of the alternative
TaskListTail ==
    << Item({" "}, FALSE, "+"), Lit("["), Dot("1"), Lit("]"),
       Item(Whitespace, FALSE, "1"), Dot("*"), Lit(UNIQUE_CURSOR), Dot("*"), Eol >>
TASK_LIST_REGEX_dash ==
    << Bol, Item(Whitespace, FALSE, "*"), Lit("-") >> \o TaskListTail
TASK_LIST_REGEX_number ==
    << Bol, Item(Whitespace, FALSE, "*"), Item(Digits, FALSE, "+"), Lit(".") >>
    \o TaskListTail
\* BLOCK_QUOTES_REGEX = ^\s*>.*CURSOR.*$
BLOCK_QUOTES_REGEX ==
    << Bol, Item(Whitespace, FALSE, "*"), Lit(">"), Dot("*"),
       Lit(UNIQUE_CURSOR), Dot("*"), Eol >>
\* NUMBERED_LIST_REGEX = ^\s*\d+\.\s.*CURSOR.*$
NUMBERED_LIST_REGEX ==
    << Bol, Item(Whitespace, FALSE, "*"), Item(Digits, FALSE, "+"), Lit("."),
       Item(Whitespace, FALSE, "1"), Dot("*"), Lit(UNIQUE_CURSOR), Dot("*"), Eol >>
\* MATH_BLOCK_REGEX = \$\$[\s\S]*?\$\$ and INLINE_MATH_BLOCK_REGEX = \$[\s\S]*?\$
MATH_BLOCK_REGEX == << Lit("$"), Lit("$"), AnyChar("*"), Lit("$"), Lit("$") >>
INLINE_MATH_BLOCK_REGEX == << Lit("$"), AnyChar("*"), Lit("$") >>
\* CODE_BLOCK_REGEX: three backquotes, [\s\S]*?, three backquotes;
\* INLINE_CODE_BLOCK_REGEX: a backquote, .*, a backquote
CODE_BLOCK_REGEX ==
    << Lit(BQ), Lit(BQ), Lit(BQ), AnyChar("*"), Lit(BQ), Lit(BQ), Lit(BQ) >>
INLINE_CODE_BLOCK_REGEX == << Lit(BQ), Dot("*"), Lit(BQ) >>

\* _is_cursor_in_regex_block: a block of pattern.findall(text) holds the cursor.
is_cursor_in_regex_block(prefix, suffix, items, lazy) ==
    LET text == prefix \o << UNIQUE_CURSOR >> \o suffix
        blocks == re_matches(items, lazy, text, 0)
    IN  \E n \in 1..Len(blocks) :
            blocks[n].start <= Len(prefix) + 1 /\ Len(prefix) + 1 <= blocks[n].end

\* The test get_context makes for each class.
ContextTest(c, prefix, suffix) ==
    LET text == prefix \o << UNIQUE_CURSOR >> \o suffix
    IN  CASE c = "Heading" -> re_search(HEADER_REGEX, text)
          [] c = "BlockQuotes" -> re_search(BLOCK_QUOTES_REGEX, text)
          [] c = "TaskList" ->
                 \/ re_search(TASK_LIST_REGEX_dash, text)
                 \/ re_search(TASK_LIST_REGEX_number, text)
          [] c = "MathBlock" ->
                 \/ is_cursor_in_regex_block(prefix, suffix, MATH_BLOCK_REGEX, TRUE)
                 \/ is_cursor_in_regex_block(prefix, suffix, INLINE_MATH_BLOCK_REGEX, TRUE)
          [] c = "CodeBlock" ->
                 \/ is_cursor_in_regex_block(prefix, suffix, CODE_BLOCK_REGEX, TRUE)
                 \/ is_cursor_in_regex_block(prefix, suffix, INLINE_CODE_BLOCK_REGEX, FALSE)
          [] c = "NumberedList" -> re_search(NUMBERED_LIST_REGEX, text)
          [] c = "UnorderedList" -> re_search(UNORDERED_LIST_REGEX, text)
          [] c = "Text" -> TRUE

\* get_context, were the list tests made before the block tests
get_context_ListsFirst(prefix, suffix) ==
    IF ContextTest("Heading", prefix, suffix) THEN "Heading"
    ELSE IF ContextTest("BlockQuotes", prefix, suffix) THEN "BlockQuotes"
    ELSE IF ContextTest("TaskList", prefix, suffix) THEN "TaskList"
    ELSE IF ContextTest("NumberedList", prefix, suffix) THEN "NumberedList"
    ELSE IF ContextTest("UnorderedList", prefix, suffix) THEN "UnorderedList"
    ELSE IF ContextTest("MathBlock", prefix, suffix) THEN "MathBlock"
    ELSE IF ContextTest("CodeBlock", prefix, suffix) THEN "CodeBlock"
    ELSE "Text"

\* get_context
get_context(prefix, suffix) ==
    IF ContextTest("Heading", prefix, suffix) THEN "Heading"
    ELSE IF ContextTest("BlockQuotes", prefix, suffix) THEN "BlockQuotes"
    ELSE IF ContextTest("TaskList", prefix, suffix) THEN "TaskList"
    ELSE IF ContextTest("MathBlock", prefix, suffix) THEN "MathBlock"
    ELSE IF ContextTest("CodeBlock", prefix, suffix) THEN "CodeBlock"
    ELSE IF ContextTest("NumberedList", prefix, suffix) THEN "NumberedList"
    ELSE IF ContextTest("UnorderedList", prefix, suffix) THEN "UnorderedList"
    ELSE "Text"

\* The pieces the text around the cursor is made of: the markers of the
\* classes, a fence followed by a newline, a fence, a newline and a letter.
DetectionPieces ==
    { << "#", " " >>, << ">", " " >>, << "-", " ", "[", " ", "]", " " >>,
      << "1", ".", " " >>, << "-", " " >>, << "$" >>,
      Fence \o << "\n" >>, Fence, << "\n" >>, << "x" >> }
DetectionPrefixes == Concats(DetectionPieces, MaxPieces)
\* The suffix is empty or one piece.
DetectionSuffixes == {<< >>} \cup DetectionPieces

\* One call of get_context.
Detect(prefix, suffix) ==
    /\ call' = [fn |-> "get_context", prefix |-> prefix, suffix |-> suffix,
                context |-> get_context(prefix, suffix)]
    /\ UNCHANGED << now, ttlD, lookup, pipe, progVars, histVars, compVars >>

\* A behaviour holds one call.
DetectNext ==
    /\ call = NoCall
    /\ \E prefix \in DetectionPrefixes, suffix \in DetectionSuffixes :
         Detect(prefix, suffix)

DetectSpec == Init /\ [][DetectNext]_vars

\* ------------------------------------------------- the post-processors
\* str.replace(ch, ""): the text without the character ch
RECURSIVE Without(_, _)
Without(text, ch) ==
    IF text = << >> THEN << >>
    ELSE (IF text[1] = ch THEN << >> ELSE << text[1] >>) \o Without(Tail(text), ch)

\* RemoveMathIndicators.process: in a MathBlock, re.sub(r"\n?\$\$\n?", "", c)
\* and then the "$" left are removed.
MathFence == << Item({"\n"}, FALSE, "?"), Lit("$"), Lit("$"), Item({"\n"}, FALSE, "?") >>
RemoveMathIndicators_process(prefix, suffix, completion, context) ==
    IF context = "MathBlock"
    THEN Without(re_sub(MathFence, FALSE, completion), "$")
    ELSE completion

\* The two patterns of RemoveCodeIndicators: three backquotes, [a-zA-Z]+,
\* [ \t]*, \n? and \n?, three backquotes, [ \t]*, \n?
OpeningFence ==
    << Lit(BQ), Lit(BQ), Lit(BQ), Item(Letters, FALSE, "+"),
       Item({" ", "\t"}, FALSE, "*"), Item({"\n"}, FALSE, "?") >>
ClosingFence ==
    << Item({"\n"}, FALSE, "?"), Lit(BQ), Lit(BQ), Lit(BQ),
       Item({" ", "\t"}, FALSE, "*"), Item({"\n"}, FALSE, "?") >>

\* the fence stripper, were it to leave the completion as it is
RemoveCodeIndicators_process_Keep(prefix, suffix, completion, context) == completion

\* RemoveCodeIndicators.process: in a CodeBlock the two substitutions, then
\* the backquotes left are removed.
RemoveCodeIndicators_process(prefix, suffix, completion, context) ==
    IF context = "CodeBlock"
    THEN Without(re_sub(ClosingFence, FALSE, re_sub(OpeningFence, FALSE, completion)), BQ)
    ELSE completion

\* RemoveWhitespace.process; the last two marks of the set are the characters
\* U+00BB and U+201D.
TrimContexts ==
    {"Text", "Heading", "MathBlock", "TaskList", "NumberedList", "UnorderedList"}
ClosingMarks == {".", ",", ";", ":", "!", "?", ")", "]", "}", "<U+00BB>", "<U+201D>"}
RemoveWhitespace_process(prefix, suffix, completion, context) ==
    IF context \in TrimContexts
    THEN LET c1 == IF \/ prefix # << >> /\ prefix[Len(prefix)] \in {" ", "\t", "\n"}
                      \/ suffix # << >> /\ suffix[1] = "\n"
                   THEN lstrip(completion) ELSE completion
         IN  IF suffix # << >> /\ suffix[1] \in ClosingMarks THEN rstrip(c1) ELSE c1
    ELSE completion

\* from_settings: post = [RemoveMathIndicators(), RemoveCodeIndicators(),
\* RemoveOverlap(), RemoveWhitespace()]
post_processors ==
    << "RemoveMathIndicators", "RemoveCodeIndicators", "RemoveOverlap", "RemoveWhitespace" >>

PostProcess(p, prefix, suffix, completion, context) ==
    CASE p = "RemoveMathIndicators" ->
             RemoveMathIndicators_process(prefix, suffix, completion, context)
      [] p = "RemoveCodeIndicators" ->
             RemoveCodeIndicators_process(prefix, suffix, completion, context)
      [] p = "RemoveOverlap" -> RemoveOverlap_process(prefix, suffix, completion)
      [] p = "RemoveWhitespace" ->
             RemoveWhitespace_process(prefix, suffix, completion, context)

\* The loop of fetch_predictions over the post-processors from the i-th on.
RECURSIVE PostLoop(_, _, _, _, _)
PostLoop(i, prefix, suffix, completion, context) ==
    IF i > Len(post_processors) THEN completion
    ELSE PostLoop(i + 1, prefix, suffix,
                  PostProcess(post_processors[i], prefix, suffix, completion, context),
                  context)

\* The texts of a request made in a Python code block and of the answers to
\* it: with and without the fences, with the indentation of the line or less.
Python == << "p", "y", "t", "h", "o", "n" >>
DefLine == << "d", "e", "f", " ", "f", "(", ")", ":", "\n" >>
ReturnLine == << "r", "e", "t", "u", "r", "n", " ", "1" >>
Indents == {<< >>, << " ", " " >>, << " ", " ", " ", " " >>}
ChainPrefixes ==
    {open \o DefLine \o indent :
        open \in {Fence \o Python \o << "\n" >>, Fence \o << "\n" >>, << >>},
        indent \in Indents}
ChainSuffixes == {<< "\n" >> \o Fence, << "\n" >>, << >>}
ChainUpstreams ==
    {open \o indent \o ReturnLine \o close :
        open \in {Fence \o Python \o << "\n" >>, Fence \o << "\n" >>, << >>},
        indent \in Indents,
        close \in {<< "\n" >> \o Fence, << "\n" >>, << >>}}

\* The post-processors of fetch_predictions on the text the upstream gave,
\* with the context get_context gave for the request.
PostProcessors(prefix, suffix, upstream, context) ==
    /\ call' = [fn |-> "post_processors", prefix |-> prefix, suffix |-> suffix,
                upstream |-> upstream, context |-> context,
                completion |-> PostLoop(1, prefix, suffix, upstream, context)]
    /\ UNCHANGED << now, ttlD, lookup, pipe, progVars, histVars, compVars >>

\* A behaviour holds one call.
ChainNext ==
    /\ call = NoCall
    /\ \E prefix \in ChainPrefixes, suffix \in ChainSuffixes, upstream \in ChainUpstreams :
         PostProcessors(prefix, suffix, upstream, get_context(prefix, suffix))

ChainSpec == Init /\ [][ChainNext]_vars

\* ------------------------------------------------- server.py: _req_key
\* the prefix window, were it the whole prefix
req_key_WholePrefix(provider, model, prefix, suffix) ==
    << provider, ":", model, ":" >> \o stable_hash(prefix \o << "\\u241f" >> \o head(suffix))

\* _req_key: f"{provider}:{model}:{stable_hash(tail + U+241F + head)}"
req_key(provider, model, prefix, suffix) ==
    << provider, ":", model, ":" >>
    \o stable_hash(tail(prefix) \o << "\\u241f" >> \o head(suffix))

\* The requests _req_key is called on: two providers and two models;
\* prefixes that end with one of two characters after TailLen - 1 others and
\* have nothing or one of two characters before them; suffixes built the same
\* way around the HeadLen characters of their window.
Providers == {"openai", "gemini"}
Models == {"gpt-4o-mini", "gemini-2.5-flash"}
Distant == {<< >>, << "x" >>, << "y" >>}
KeyPrefixes ==
    {d \o [i \in 1..(TailLen - 1) |-> "p"] \o << n >> : d \in Distant, n \in {"a", "b"}}
KeySuffixes ==
    {<< n >> \o [i \in 1..(HeadLen - 1) |-> "s"] \o d : n \in {"a", "b"}, d \in Distant}
KeyRequests ==
    [provider : Providers, model : Models, prefix : KeyPrefixes, suffix : KeySuffixes]

\* Two calls of _req_key: the requests and their keys.
ReqKeys(a, b) ==
    /\ call' = [fn |-> "_req_key", a |-> a, b |-> b,
                ka |-> req_key(a.provider, a.model, a.prefix, a.suffix),
                kb |-> req_key(b.provider, b.model, b.prefix, b.suffix)]
    /\ UNCHANGED << now, ttlD, lookup, pipe, progVars, histVars, compVars >>

\* A behaviour holds one pair of calls.
KeyNext ==
    /\ call = NoCall
    /\ \E a \in KeyRequests, b \in KeyRequests : ReqKeys(a, b)

KeySpec == Init /\ [][KeyNext]_vars

\* ------------------------------------- api_clients: stream_chat_model
\* One run of the async generator stream_chat_model of a client, a step from
\* one suspension to the next.  pc is "idle" before the first step,
\* "streaming" while the upstream stream is read, "fallback" while the
\* one-shot query runs, "done" when the generator has returned and "raised"
\* when an exception has left it.
Clients == {"gemini", "openai", "openrouter"}

\* The texts of the items of a stream and of the one-shot answer.
ItemTexts == {"", "a", "b"}
QueryResults == {[ok |-> TRUE, value |-> "ab"], [ok |-> TRUE, value |-> ""],
                 [ok |-> FALSE, value |-> ""]}

\* The HTTP status codes of the answer to the streaming request.
Statuses == {200, 399, 400, 500}

\* An exception in the body of stream_chat_model: GeminiClient catches it and
\* awaits query_chat_model; OpenAIClient and OpenRouterClient have no handler.
OnException(c, st, how) ==
    IF c = "gemini"
    THEN [st EXCEPT !.pc = "fallback", !.failed = how, !.early = (st.chunks = << >>)]
    ELSE [st EXCEPT !.pc = "raised", !.failed = how, !.early = (st.chunks = << >>)]

\* The streaming request raises: generate_content_stream, or client.stream.
StreamOpenRaises(c) ==
    /\ stream.pc = "idle"
    /\ stream' = OnException(c, [stream EXCEPT !.client = c], "raise")
    /\ UNCHANGED << now, ttlD, lookup, pipe, call, progVars, histVars,
                    user_limiters, limLog, capD >>

\* The streaming request of OpenAIClient or OpenRouterClient is answered with
\* a status code: `if resp.status_code >= 400: return`.  (The Gemini SDK
\* raises on such an answer.)
StreamOpenStatus(c, status) ==
    /\ stream.pc = "idle"
    /\ c # "gemini"
    /\ stream' = IF status >= 400
                 THEN [stream EXCEPT !.client = c, !.pc = "done",
                                     !.failed = "status", !.early = TRUE]
                 ELSE [stream EXCEPT !.client = c, !.pc = "streaming"]
    /\ UNCHANGED << now, ttlD, lookup, pipe, call, progVars, histVars,
                    user_limiters, limLog, capD >>

\* The streaming request of GeminiClient returns the stream.
StreamOpenGemini ==
    /\ stream.pc = "idle"
    /\ stream' = [stream EXCEPT !.client = "gemini", !.pc = "streaming"]
    /\ UNCHANGED << now, ttlD, lookup, pipe, call, progVars, histVars,
                    user_limiters, limLog, capD >>

\* The stream delivers an item: its text is yielded when it is not empty.
StreamItem(text) ==
    /\ stream.pc = "streaming"
    /\ stream.items < MaxItems
    /\ stream' = [stream EXCEPT !.items = @ + 1,
                                !.chunks = IF text # "" THEN Append(@, text) ELSE @]
    /\ UNCHANGED << now, ttlD, lookup, pipe, call, progVars, histVars,
                    user_limiters, limLog, capD >>

\* Reading the stream raises.
StreamBreaks ==
    /\ stream.pc = "streaming"
    /\ stream' = OnException(stream.client, stream, "raise")
    /\ UNCHANGED << now, ttlD, lookup, pipe, call, progVars, histVars,
                    user_limiters, limLog, capD >>

\* The stream ends.
StreamEnds ==
    /\ stream.pc = "streaming"
    /\ stream' = [stream EXCEPT !.pc = "done"]
    /\ UNCHANGED << now, ttlD, lookup, pipe, call, progVars, histVars,
                    user_limiters, limLog, capD >>

\* The one-shot query of the fallback returns: `if result.is_ok(): yield
\* result.value`, then return.
FallbackReturns(result) ==
    /\ stream.pc = "fallback"
    /\ stream' = [stream EXCEPT !.pc = "done", !.queried = TRUE, !.query = result,
                                !.chunks = IF result.ok THEN Append(@, result.value) ELSE @]
    /\ UNCHANGED << now, ttlD, lookup, pipe, call, progVars, histVars,
                    user_limiters, limLog, capD >>

StreamNext ==
    \/ \E c \in Clients : StreamOpenRaises(c)
    \/ \E c \in Clients, status \in Statuses : StreamOpenStatus(c, status)
    \/ StreamOpenGemini
    \/ \E text \in ItemTexts : StreamItem(text)
    \/ StreamBreaks
    \/ StreamEnds
    \/ \E result \in QueryResults : FallbackReturns(result)

StreamSpec == Init /\ [][StreamNext]_vars

\* ------------------------------------- cache.py: the size of the cache
\* The fallback cache under stores and lookups at one instant.  The keys are
\* numbered in the order of their first store, so _d is the sequence of the
\* entries of the keys stored so far.
WithKey(d, k) == IF k \in DOMAIN d THEN d ELSE Append(d, NoEntry)

\* The entries _d holds.
Entries(d) == {k \in DOMAIN d : d[k] # NoEntry}

\* suggest_cache[k] = text: for the first key, or for a key never stored
\* before.
CapStore(k) ==
    /\ k \in CapKeys
    /\ k \in {1, Len(capD) + 1}
    /\ capD' = SimpleTTL_setitem(WithKey(capD, k), k, 1, now)
    /\ UNCHANGED << now, ttlD, lookup, pipe, call, progVars, histVars,
                    stream, user_limiters, limLog >>

\* suggest_cache.get(k): a key _d does not hold gives the default.
CapLookup(k) ==
    /\ capD' = IF k \in DOMAIN capD THEN SimpleTTL_after_get(capD, k, now) ELSE capD
    /\ lookup' = IF k \in DOMAIN capD
                 THEN [at |-> now, had |-> capD[k] # NoEntry, exp |-> capD[k].exp,
                       val |-> SimpleTTL_get(capD, k, now),
                       removed |-> SimpleTTL_after_get(capD, k, now)[k] = NoEntry]
                 ELSE [at |-> now, had |-> FALSE, exp |-> None, val |-> None,
                       removed |-> FALSE]
    /\ UNCHANGED << now, ttlD, pipe, call, progVars, histVars,
                    stream, user_limiters, limLog >>

CapNext ==
    \/ \E k \in CapKeys : CapStore(k)
    \/ \E k \in {1, 2} : CapLookup(k)

CapSpec == Init /\ [][CapNext]_vars

\* ------------------------------------------- rate_limit.py: limiter_for
\* A bucket is an AsyncLimiter object; it is named by the number of the
\* AsyncLimiter(3, 1) call that created it.
BucketsCreated == Cardinality({i \in 1..Len(limLog) : limLog[i].created})

\* user_limiters.get(user_id), were the map to forget its buckets
LimitersGet_Miss(map, u) == None

\* user_limiters.get(user_id)
LimitersGet(map, u) == map[u]

\* limiter_for(user_id): the bucket of the map, or a new one that is put in
\* the map.
LimiterFor(u) ==
    /\ Len(limLog) < MaxLimiterCalls
    /\ LET lim == LimitersGet(user_limiters, u)
       IN  IF lim = None
           THEN /\ user_limiters' = [user_limiters EXCEPT ![u] = BucketsCreated + 1]
                /\ limLog' = Append(limLog, [user |-> u, bucket |-> BucketsCreated + 1,
                                             created |-> TRUE])
           ELSE /\ UNCHANGED user_limiters
                /\ limLog' = Append(limLog, [user |-> u, bucket |-> lim, created |-> FALSE])
    /\ UNCHANGED << now, ttlD, lookup, pipe, call, progVars, histVars, stream, capD >>

LimiterNext == \E u \in Users : LimiterFor(u)

LimiterSpec == Init /\ [][LimiterNext]_vars

\* ------------------------------------- pre_processors/length_limiter.py
\* One call of process and removes_cursor of LengthLimiter(max_prefix,
\* max_suffix), for limits from 0 to one more than the longest text.
LimitTexts == TextsOf({"a", "b"}, MaxPrefixLen)
Limits == 0..(MaxPrefixLen + 1)

Limit(max_prefix, max_suffix, prefix, suffix) ==
    /\ call' = [fn |-> "LengthLimiter", max_prefix |-> max_prefix,
                max_suffix |-> max_suffix, prefix |-> prefix, suffix |-> suffix,
                out |-> LengthLimiter_limit(max_prefix, max_suffix, prefix, suffix),
                removes |-> LengthLimiter_removes_cursor(prefix, suffix)]
    /\ UNCHANGED << now, ttlD, lookup, pipe, progVars, histVars, compVars >>

\* A behaviour holds one call.
LimitNext ==
    /\ call = NoCall
    /\ \E max_prefix \in Limits, max_suffix \in Limits,
          prefix \in LimitTexts, suffix \in LimitTexts :
         Limit(max_prefix, max_suffix, prefix, suffix)

LimitSpec == Init /\ [][LimitNext]_vars

\* ------------------------------------------------------ task cancellation
\* The task of request c is cancelled while it is suspended (Task.cancel()).
\* The future the task awaits is cancelled when it is still pending, which
\* wakes every task that awaits it; a task that was already woken keeps its
\* place in the queue.  CancelledError is raised in the task when it next runs.
Cancel(c) ==
    /\ pc[c] \in {"await_fut", "sf_factory", "sf_join"}
    /\ LET f == curFlight[c] IN
       CASE pc[c] = "await_fut" ->
              /\ pc' = [pc EXCEPT ![c] = "cancel_wait"]
              /\ fut' = [fut EXCEPT ![c] = IF @.done THEN @ ELSE CancelledFut]
              /\ ready' = IF fut[c].done THEN ready ELSE Append(ready, c)
              /\ UNCHANGED flights
         [] pc[c] = "sf_factory" ->
              /\ pc' = [pc EXCEPT ![c] = "cancel_factory"]
              /\ ready' = Append(ready, c)
              /\ UNCHANGED << fut, flights >>
         [] pc[c] = "sf_join" ->
              /\ pc' = [pc EXCEPT ![c] = "cancel_join"]
              /\ flights' = [flights EXCEPT ![f].state =
                               IF @ = "pending" THEN "cancelled" ELSE @]
              /\ ready' = IF flights[f].state = "pending"
                          THEN ready \o flights[f].joiners ELSE ready
              /\ UNCHANGED fut
    /\ UNCHANGED << nCalls, taken, cUser, cCtx, ret, locks, latest, waiters, curP, curFlight,
                    futures, cache, histVars >>
    /\ UNCHANGED unitVars

\* The event loop resumes a cancelled task: CancelledError is raised at its
\* await.  It is not an Exception, so SingleFlight.do does not resolve the
\* shared future with it; the leader's finally clause removes the key; leaving
\* `async with lock` releases the user's lock.  Waiters and the latest slot
\* stay as they are.
ResumeCancelled ==
    /\ ready # << >>
    /\ LET c == Head(ready)
           u == cUser[c]
           f == curFlight[c]
       IN  /\ pc[c] \in {"cancel_wait", "cancel_factory", "cancel_join"}
           /\ pc' = [pc EXCEPT ![c] = "cancelled"]
           /\ retOrder' = [retOrder EXCEPT ![u] = Append(@, c)]
           /\ ready' = Tail(ready)
           /\ locks' = IF pc[c] = "cancel_wait" THEN locks ELSE [locks EXCEPT ![u] = FALSE]
           /\ futures' = IF pc[c] = "cancel_factory"
                         THEN FuturesPop(futures, flights[f].key) ELSE futures
           /\ facOut' = IF pc[c] = "cancel_factory"
                        THEN [facOut EXCEPT ![f] = CancelledCall] ELSE facOut
    /\ UNCHANGED << nCalls, taken, cUser, cCtx, ret, latest, waiters, fut, curP, curFlight,
                    flights, cache, arr, fnLog, doneLog, resLog, futBy, joinSeen >>
    /\ UNCHANGED unitVars

\* The event loop resumes a joiner whose shared future was cancelled by the
\* cancellation of another joiner: `await fut` raises CancelledError in it.
ResumeJoinerCancelled ==
    /\ ready # << >>
    /\ LET c == Head(ready)
           fl == flights[curFlight[c]]
       IN  /\ pc[c] = "sf_join"
           /\ fl.state = "cancelled"
           /\ joinSeen' = [joinSeen EXCEPT ![c] = [flight |-> curFlight[c],
                                                   state |-> fl.state, result |-> fl.result]]
           /\ pc' = [pc EXCEPT ![c] = "cancelled"]
           /\ retOrder' = [retOrder EXCEPT ![cUser[c]] = Append(@, c)]
           /\ locks' = [locks EXCEPT ![cUser[c]] = FALSE]
           /\ ready' = Tail(ready)
    /\ UNCHANGED << nCalls, taken, cUser, cCtx, ret, latest, waiters, fut, curP, curFlight,
                    futures, flights, cache, arr, fnLog, doneLog, resLog, futBy, facOut >>
    /\ UNCHANGED unitVars

\* The upstream call of leader c ends (with a Result or with TimeoutError)
\* after a joiner's cancellation cancelled the shared future: set_result, and
\* set_exception in the except branch, raise InvalidStateError, which leaves
\* do, fn and run after the finally clause removed the key.
FactoryEndCancelled(c) ==
    /\ pc[c] = "sf_factory"
    /\ flights[curFlight[c]].state = "cancelled"
    /\ \E out \in {Returned(res) : res \in FetchResults(curP[c])} \cup {Raised} :
         RunRaise(c,
                  FuturesPop(futures, flights[curFlight[c]].key),
                  flights,
                  ready,
                  [facOut EXCEPT ![curFlight[c]] = out])
    /\ UNCHANGED joinSeen
    /\ UNCHANGED unitVars

\* The program when the tasks of requests may be cancelled.
CancelNext ==
    \/ \E u \in Users, x \in PlainContexts : PredictHit(u, x)
    \/ \E u \in Users, x \in PlainContexts, live \in BOOLEAN : PredictWait(u, x, live)
    \/ \E u \in Users, x \in PlainContexts, live \in BOOLEAN : PredictRun(u, x, live)
    \/ \E c \in CallIds : FactoryReturn(c)
    \/ \E c \in CallIds : FactoryRaise(c)
    \/ ResumeWaiter
    \/ ResumeJoiner
    \/ ResumeJoinerRaise
    \/ \E c \in CallIds : Cancel(c)
    \/ ResumeCancelled
    \/ ResumeJoinerCancelled
    \/ \E c \in CallIds : FactoryEndCancelled(c)

CancelSpec == Init /\ [][CancelNext]_vars

\* The program with cancellation when the requests of all users carry the
\* same context, so that every do call is for one key.
OneContext == {CHOOSE x \in PlainContexts : TRUE}

CancelOneKeyNext ==
    \/ \E u \in Users, x \in OneContext : PredictHit(u, x)
    \/ \E u \in Users, x \in OneContext, live \in BOOLEAN : PredictWait(u, x, live)
    \/ \E u \in Users, x \in OneContext, live \in BOOLEAN : PredictRun(u, x, live)
    \/ \E c \in CallIds : FactoryReturn(c)
    \/ \E c \in CallIds : FactoryRaise(c)
    \/ ResumeWaiter
    \/ ResumeJoiner
    \/ ResumeJoinerRaise
    \/ \E c \in CallIds : Cancel(c)
    \/ ResumeCancelled
    \/ ResumeJoinerCancelled
    \/ \E c \in CallIds : FactoryEndCancelled(c)

CancelOneKeySpec == Init /\ [][CancelOneKeyNext]_vars

\* The same program when the event loop runs every woken task and every
\* upstream call ends; arrivals and cancellations come from outside and need
\* never happen.
CancelLiveSpec ==
    /\ Init
    /\ [][CancelNext]_vars
    /\ \A c \in CallIds : WF_vars(FactoryReturn(c))
    /\ \A c \in CallIds : WF_vars(FactoryEndCancelled(c))
    /\ WF_vars(ResumeWaiter)
    /\ WF_vars(ResumeJoiner)
    /\ WF_vars(ResumeJoinerRaise)
    /\ WF_vars(ResumeCancelled)
    /\ WF_vars(ResumeJoinerCancelled)

\* The same program when the requests carry contexts that share one
\* fingerprint.
TwinNext ==
    \/ \E u \in TwoUsers, x \in TwinContexts : PredictHit(u, x)
    \/ \E u \in TwoUsers, x \in TwinContexts, live \in BOOLEAN : PredictWait(u, x, live)
    \/ \E u \in TwoUsers, x \in TwinContexts, live \in BOOLEAN : PredictRun(u, x, live)
    \/ \E c \in CallIds : FactoryReturn(c)
    \/ \E c \in CallIds : FactoryRaise(c)
    \/ ResumeWaiter
    \/ ResumeJoiner
    \/ ResumeJoinerRaise

TwinSpec == Init /\ [][TwinNext]_vars

\* ------------------------------------------------------------- properties
\* The requests of user u that entered LatestOnly.run, the first and the last.
Entered(u) == {c \in CallIds : cUser[c] = u /\ arr[c].entered}
FirstOf(u) == CHOOSE c \in Entered(u) : \A d \in Entered(u) : c <= d
LastOf(u) == CHOOSE c \in Entered(u) : \A d \in Entered(u) : d <= c

InFn(c) == pc[c] \in {"sf_factory", "sf_join"}
Ended(c) == pc[c] \in {"done", "failed"}
Orphan(c) == pc[c] = "await_fut" /\ ~fut[c].done

\* All run calls of u after the first one arrived while the fn invocation of the
\* first one was running.
Burst(u) ==
    /\ Entered(u) # {}
    /\ \A c \in Entered(u) \ {FirstOf(u)} :
         arr[c].locked /\ arr[c].fn = 1 /\ arr[c].done = 0

\* C1: for every user, at every instant, at most one fn invocation started by
\* LatestOnly.run for that user is in progress.
C1_AtMostOneFnPerUser ==
    \A u \in Users : Cardinality({c \in CallIds : cUser[c] = u /\ InFn(c)}) <= 1

\* C1 witness: an fn invocation of a user is running while two more run calls
\* of that user have arrived.
C1_Witness ==
    \E u \in Users :
        /\ \E c \in Entered(u) : InFn(c)
        /\ Cardinality({c \in Entered(u) : Orphan(c)}) = 2

\* C2: when every fn invocation completes normally, every run call, runner or
\* waiter, eventually returns (the calls being finitely many: from some point
\* on every call that entered run has returned), it returns once, and no
\* future is left unresolved once the user's dispatch loop has ended.
C2_EveryRunReturns ==
    /\ <>[](\A c \in CallIds : arr[c].entered => pc[c] = "done")
    /\ [](\A c \in CallIds : Orphan(c) => locks[cUser[c]])
    /\ [](\A u \in Users : Len(retOrder[u]) = Cardinality(Range(retOrder[u])))

\* C2 witness: a dispatch loop has ended and its runner and two waiters have
\* returned.
C2_Witness ==
    \E u \in Users :
        /\ ~locks[u]
        /\ Cardinality({c \in Entered(u) : arr[c].locked /\ pc[c] = "done"}) = 2
        /\ \E c \in Entered(u) : ~arr[c].locked /\ pc[c] = "done"

\* C3 (as claimed): when an fn invocation raised in the runner, no waiter is
\* orphaned: once the failed dispatch loop has ended, no run call of that user
\* is left awaiting an unresolved future.
C3_NoOrphanAfterRaise ==
    \A c \in CallIds :
        (Orphan(c) /\ \E r \in CallIds : cUser[r] = cUser[c] /\ pc[r] = "failed")
            => locks[cUser[c]]

\* C4 (as claimed): at the moment the user's lock is released, the context last
\* passed to fn is the context of the last run call that started.
C4_FinalFnUsesLatest ==
    \A u \in Users :
        (~locks[u] /\ fnLog[u] # << >>)
            => fnLog[u][Len(fnLog[u])].ctx = cCtx[LastOf(u)]

\* C5 (as claimed): when the run calls of a user all arrive while the first
\* call's fn is running, and the upstream calls succeed, every one of them
\* returns the completion computed for the most recent context.
C5_AllGetLatest ==
    \A u \in Users :
        (/\ Burst(u)
         /\ \A i \in 1..Len(doneLog[u]) : doneLog[u][i] # EmptyText)
            => \A c \in Entered(u) : pc[c] = "done" => ret[c] = cCtx[LastOf(u)]

\* C6: when run calls c1..cn of a user all arrive while fn(c1) is running, fn is
\* invoked at most twice, first with c1 and then with cn, never with one of
\* c2..c(n-1).
C6_IntermediateDropped ==
    \A u \in Users :
        Burst(u) =>
            /\ Len(fnLog[u]) <= 2
            /\ fnLog[u][1].src = FirstOf(u) /\ fnLog[u][1].ctx = cCtx[FirstOf(u)]
            /\ Len(fnLog[u]) = 2 =>
                   fnLog[u][2].src = LastOf(u) /\ fnLog[u][2].ctx = cCtx[LastOf(u)]

\* C6 witness: three run calls of a user with c2 and c3 different, all arrived
\* during fn(c1), and fn has been invoked a second time.
C6_Witness ==
    \E u \in Users :
        /\ Burst(u)
        /\ Cardinality(Entered(u)) = 3
        /\ Len(fnLog[u]) = 2
        /\ \E c \in Entered(u) : c # FirstOf(u) /\ cCtx[c] # cCtx[LastOf(u)]

\* C7: a waiter's future is given the text of the first fn invocation that
\* completes after the waiter registered, never that of an earlier one, and the
\* waiter returns that text.
C7_WaiterGetsNextCompletion ==
    \A c \in CallIds :
        (arr[c].entered /\ arr[c].locked) =>
            /\ ~fut[c].done => Len(doneLog[cUser[c]]) = arr[c].done
            /\ fut[c].done =>
                   /\ futBy[c] = arr[c].done + 1
                   /\ fut[c].val = doneLog[cUser[c]][futBy[c]]
            /\ pc[c] = "done" => ret[c] = doneLog[cUser[c]][arr[c].done + 1]

\* C7 witness: a waiter that registered after the first completion of its user
\* has returned the text of the second one, which differs from the first.
C7_Witness ==
    \E c \in CallIds :
        /\ arr[c].entered /\ arr[c].locked /\ arr[c].done = 1
        /\ pc[c] = "done"
        /\ doneLog[cUser[c]][1] # doneLog[cUser[c]][2]

\* C8 (as claimed): run calls of one user return in the order in which they
\* entered LatestOnly: when a call has returned, every call of that user that
\* entered before it has returned.
C8_ReturnInEntryOrder ==
    \A u \in Users : \A x, y \in Entered(u) : (x < y /\ Ended(y)) => Ended(x)

\* C9: for every key, at every instant, at most one factory started by
\* SingleFlight.do for that key is running, whoever the callers are.
C9_AtMostOneFactoryPerKey ==
    \A k \in Keys :
        Cardinality({c \in CallIds : pc[c] = "sf_factory" /\ ReqKey(curP[c]) = k}) <= 1

\* C9 witness: the factory of a key is running for one user and a do call of
\* another user for that key has joined the flight.
C9_Witness ==
    \E c, d \in CallIds :
        /\ pc[c] = "sf_factory" /\ pc[d] = "sf_join"
        /\ cUser[c] # cUser[d]
        /\ curFlight[d] = curFlight[c]
        /\ ReqKey(curP[d]) = ReqKey(curP[c])

\* C10: a do call that joined an unresolved flight gets exactly the outcome of
\* the leader's factory invocation: the same Result when the factory returned,
\* the exception when it raised; the joiner invokes no factory of its own.
C10_JoinerGetsLeaderOutcome ==
    \A c \in CallIds :
        joinSeen[c].flight # None =>
            LET f == joinSeen[c].flight IN
            /\ flights[f].leader # c
            /\ joinSeen[c].state = facOut[f].state
            /\ joinSeen[c].result = facOut[f].result

\* C10 witness: a joiner of another user's flight has got the leader's value
\* from the shared future and its request has returned that completion.
C10_Witness ==
    \E c \in CallIds :
        /\ joinSeen[c].state = "result" /\ joinSeen[c].result.ok
        /\ joinSeen[c].result.value # EmptyText
        /\ cUser[flights[joinSeen[c].flight].leader] # cUser[c]
        /\ pc[c] = "done" /\ ret[c] = joinSeen[c].result.value

\* C11: a key is in the SingleFlight map exactly while its flight is
\* unresolved (resolving a flight, with a value or an error, removes the key), a
\* do call that finds no entry starts a flight and a factory of its own, and a
\* flight's factory is invoked once: its outcome, once there, never changes and
\* the flight is never started again.
C11_KeyRemovedOnResolution ==
    /\ [](\A f \in 1..Len(flights) :
            (flights[f].state = "pending") <=> (futures[flights[f].key] = f))
    /\ [](Len(facOut) = Len(flights))
    /\ [][\A f \in 1..Len(flights) :
            /\ flights'[f].leader = flights[f].leader
            /\ facOut[f].state # "pending" => facOut'[f] = facOut[f]]_vars

\* C11 witness: the factory of a flight has failed, and a later do call for the
\* same key leads a second flight with a factory of its own.
C11_Witness ==
    \E f, g \in 1..Len(flights) :
        /\ f < g
        /\ flights[f].key = flights[g].key
        /\ facOut[f].state = "exception"
        /\ flights[g].state = "pending" /\ pc[flights[g].leader] = "sf_factory"

C13_TimeoutGivesEmpty ==
    \A f \in 1..Len(facOut) :
        facOut[f].state = "exception" =>
            /\ flights[f].state = "result" /\ ~flights[f].result.ok
            /\ \A c \in {flights[f].leader} \cup Range(flights[f].joiners) :
                   pc[c] # "failed"

\* C14: when no fn invocation has raised, cancelling run calls (waiters or the
\* runner) leaves no other run call stranded: a waiter whose future is
\* unresolved still has a dispatch loop of its user at work.
C14_LoopSurvivesCancel ==
    (\A d \in CallIds : pc[d] # "failed") =>
        \A c \in CallIds : Orphan(c) => locks[cUser[c]]

\* C15: a lookup at time t returns a value only from an entry with
\* expires_at > t, and a lookup that finds an entry with t >= expires_at
\* removes it and reports a miss.
C15_LookupNeverReturnsExpired ==
    /\ lookup.val # None => lookup.exp > lookup.at
    /\ (lookup.had /\ lookup.at >= lookup.exp) => (lookup.val = None /\ lookup.removed)

\* C16: the cache never holds the empty completion, and a step in which an fn
\* invocation ends with the empty text (after a short-circuit, an upstream
\* error or a guardrail failure) leaves the cache as it was, so a fingerprint
\* that was a miss is still a miss.
C16_EmptyNeverCached ==
    /\ [](\A k \in Keys : cache[k] # EmptyText)
    /\ [][\A u \in Users :
            (/\ Len(doneLog'[u]) = Len(doneLog[u]) + 1
             /\ doneLog'[u][Len(doneLog'[u])] = EmptyText)
            => cache' = cache]_vars

\* C16 witness: an fn invocation for a context ended with the empty text, its
\* fingerprint is not in the cache, and a later request with the same context
\* missed the cache and had fn invoked again.
C16_Witness ==
    \E u \in Users, c, d \in CallIds :
        /\ c < d /\ cUser[c] = u /\ cUser[d] = u /\ cCtx[c] = cCtx[d]
        /\ Len(doneLog[u]) >= 1 /\ doneLog[u][1] = EmptyText
        /\ Len(fnLog[u]) = 2
        /\ fnLog[u][1].src = c /\ fnLog[u][2].src = d /\ fnLog[u][2].runner = d
        /\ arr[d].done = 1
        /\ cache[ReqKey(cCtx[c])] = None

\* The last fn invocation of runner r that has ended, as an index of doneLog.
LastBy(r) ==
    CHOOSE i \in 0..Len(resLog[cUser[r]]) :
        /\ i # 0 => resLog[cUser[r]][i].runner = r
        /\ \A j \in 1..Len(resLog[cUser[r]]) : resLog[cUser[r]][j].runner = r => j <= i

\* C17 as stated: whenever fetch_predictions returned an error Result, the
\* request that ran the call and every request coalesced onto it respond with
\* the empty completion.
C17_ErrGivesEmpty ==
    \A u \in Users : \A i \in 1..Len(resLog[u]) :
        ~resLog[u][i].ok =>
            /\ pc[resLog[u][i].runner] = "done" => ret[resLog[u][i].runner] = EmptyText
            /\ \A w \in CallIds :
                 (cUser[w] = u /\ arr[w].locked /\ futBy[w] = i /\ pc[w] = "done")
                 => ret[w] = EmptyText

\* C17, amended: whenever fetch_predictions returned an error Result, the text
\* of that fn invocation is empty; every waiter it resolves responds with the
\* empty completion, and so does its runner when the invocation is the last of
\* the runner's dispatch loop (a runner whose loop goes on responds with the
\* text of its last invocation); a request ends with an exception only when a
\* factory raised, never because of an error Result.
C17_ErrGivesEmptyToItsCallers ==
    /\ \A u \in Users : \A i \in 1..Len(resLog[u]) :
        ~resLog[u][i].ok =>
            /\ doneLog[u][i] = EmptyText
            /\ (pc[resLog[u][i].runner] = "done" /\ LastBy(resLog[u][i].runner) = i)
                   => ret[resLog[u][i].runner] = EmptyText
            /\ \A w \in CallIds :
                 (cUser[w] = u /\ arr[w].locked /\ futBy[w] = i)
                 => /\ fut[w] = Resolved(EmptyText)
                    /\ pc[w] = "done" => ret[w] = EmptyText
    /\ \A c \in CallIds :
         pc[c] = "failed" => facOut[curFlight[c]].state = "exception"

\* C17 witness: two fn invocations of one user got an error Result; the waiter
\* the first one resolved and the runner, whose loop ended with the second,
\* both responded with the empty completion.
C17_Witness ==
    \E u \in Users, r, w \in CallIds :
        /\ Len(resLog[u]) = 2
        /\ ~resLog[u][1].ok /\ ~resLog[u][2].ok
        /\ resLog[u][2].runner = r
        /\ cUser[w] = u /\ arr[w].locked /\ futBy[w] = 1
        /\ pc[r] = "done" /\ ret[r] = EmptyText
        /\ pc[w] = "done" /\ ret[w] = EmptyText

\* C18: every request that has reached the cache lookup, LatestOnly or
\* SingleFlight has acquired a token of its user's limiter: the tokens taken
\* for a user are as many as the user's requests, those answered from the
\* cache included.
C18_TokenBeforeLookup ==
    \A u \in Users :
        taken[u] = Cardinality({c \in CallIds : pc[c] # "new" /\ cUser[c] = u})

\* C18 witness: a user's second request was answered from the cache and two
\* tokens of that user's limiter are taken.
C18_Witness ==
    \E c \in CallIds :
        /\ pc[c] = "done" /\ ~arr[c].entered /\ ret[c] # EmptyText
        /\ Cardinality({d \in CallIds : pc[d] # "new" /\ cUser[d] = cUser[c]}) = 2
        /\ taken[cUser[c]] = 2

\* C19: when a preprocessor reports the cursor as removed, build_messages
\* returns no messages, no upstream call is made, no preprocessor's process is
\* run, the request's completion is empty and nothing is stored in the cache.
C19_CursorRemovedShortCircuits ==
    (pipe.called /\ removes_cursor(pipe.prefix, pipe.suffix)) =>
        /\ pipe.messages = << >>
        /\ pipe.upstream = 0
        /\ pipe.ran = << >>
        /\ pipe.result = Ok(<< >>)
        /\ pipe.text = << >>
        /\ ~pipe.stored

\* C19 witness: the cursor of a request is inside a dataview block that is
\* closed in the suffix, and the run ended with no message and no text.
C19_Witness ==
    /\ pipe.called
    /\ pipe.prefix = DataviewOpen \o << "x" >> /\ pipe.suffix = << "x" >> \o Fence
    /\ removes_cursor(pipe.prefix, pipe.suffix)
    /\ pipe.messages = << >> /\ pipe.text = << >>

\* C20: a post-processed completion that is empty, all white space, or holds
\* <mask/> leaves the guardrails as an error Result, and the completion of a
\* response is never non-empty white space and never holds <mask/>.
C20_GuardrailsTerminal ==
    pipe.called =>
        /\ (/\ pipe.upstream = 1 /\ pipe.post.ok
            /\ (StripsToEmpty(pipe.post.value) \/ Contains(pipe.post.value, Mask)))
               => (~pipe.result.ok /\ pipe.text = << >>)
        /\ ~(pipe.text # << >> /\ StripsToEmpty(pipe.text))
        /\ ~Contains(pipe.text, Mask)

\* C20 witness: the post-processors gave a completion with text and the
\* sentinel in it, and the response carries the empty completion.
C20_Witness ==
    /\ pipe.called /\ pipe.upstream = 1
    /\ pipe.post = Ok(<< "x" >> \o Mask)
    /\ ~pipe.result.ok /\ pipe.text = << >>

\* C21: RemoveOverlap.process is idempotent: applied to its own result, with
\* the same prefix and suffix, it gives that result again.
C21_OverlapIdempotent ==
    call.fn = "RemoveOverlap" =>
        RemoveOverlap_process(call.prefix, call.suffix, call.out) = call.out

\* The tails of the prefix that start at a word and begin the left-trimmed
\* completion, by their first position.
MatchingTails(prefix, completion) ==
    {i \in 1..Len(prefix) :
       /\ ~is_ws(prefix[i])
       /\ i = 1 \/ is_ws(prefix[i - 1])
       /\ startswith(lstrip(completion), From(prefix, i))}

\* C28: when tails of the prefix that start at a word begin the left-trimmed
\* completion, _remove_word_overlap_prefix cuts the longest of them from it.
C28_LongestTailRemoved ==
    call.fn = "RemoveOverlap" =>
        \A i \in MatchingTails(call.prefix, call.completion) :
            (\A j \in MatchingTails(call.prefix, call.completion) : i <= j)
            => call.word = From(lstrip(call.completion), Len(call.prefix) - i + 2)

\* The classes in the order the spec gives them.
ClassOrder ==
    << "Heading", "BlockQuotes", "TaskList", "MathBlock", "CodeBlock",
       "NumberedList", "UnorderedList", "Text" >>

\* C23: get_context returns the first class, in the order Heading,
\* BlockQuotes, TaskList, MathBlock, CodeBlock, NumberedList, UnorderedList,
\* whose test matches, and Text when none does; so a cursor on a
\* numbered-list line inside a code fence, which none of the four classes
\* before CodeBlock claims, is classified CodeBlock.
C23_FirstMatchingClass ==
    call.fn = "get_context" =>
        /\ LET M == {k \in 1..Len(ClassOrder) :
                        ContextTest(ClassOrder[k], call.prefix, call.suffix)}
           IN  \E k \in M : (\A j \in M : k <= j) /\ call.context = ClassOrder[k]
        /\ (/\ ContextTest("NumberedList", call.prefix, call.suffix)
            /\ ContextTest("CodeBlock", call.prefix, call.suffix)
            /\ \A j \in 1..4 : ~ContextTest(ClassOrder[j], call.prefix, call.suffix))
           => call.context = "CodeBlock"

\* A cursor after "1. " on the line that follows an opening fence, with the
\* closing fence after it, was classified CodeBlock.
C23_Witness ==
    /\ call.fn = "get_context"
    /\ call.prefix = Fence \o << "\n", "1", ".", " " >>
    /\ call.suffix = Fence
    /\ ContextTest("NumberedList", call.prefix, call.suffix)
    /\ ContextTest("CodeBlock", call.prefix, call.suffix)
    /\ call.context = "CodeBlock"

\* The request and the answer of the example: the cursor after four spaces
\* on the line after "def f():" in a python fence.
ExamplePrefix == Fence \o Python \o << "\n" >> \o DefLine \o << " ", " ", " ", " " >>
ExampleSuffix == << "\n" >> \o Fence
ExampleUpstream ==
    Fence \o Python \o << "\n", " ", " ", " ", " " >> \o ReturnLine \o << "\n" >> \o Fence
IsExample ==
    /\ call.fn = "post_processors"
    /\ call.prefix = ExamplePrefix
    /\ call.suffix = ExampleSuffix
    /\ call.upstream = ExampleUpstream

\* C22: for the example the context is CodeBlock and the post-processors
\* give the completion "    return 1\n", fences removed and indentation kept.
C22_ExampleKeepsIndentation ==
    IsExample =>
        /\ call.context = "CodeBlock"
        /\ call.completion = << " ", " ", " ", " " >> \o ReturnLine \o << "\n" >>

\* C22, amended: for the example the context is CodeBlock and the
\* post-processors give the completion "return 1": the fences are removed,
\* and so are the four spaces that repeat the end of the prefix and the
\* newline before the closing fence.
C22_ExampleGivesReturnLine ==
    IsExample =>
        /\ call.context = "CodeBlock"
        /\ call.completion = ReturnLine

C22_Witness ==
    /\ IsExample
    /\ call.context = "CodeBlock"
    /\ ~Contains(call.completion, << BQ >>)
    /\ call.completion = ReturnLine

\* The last n and the first n characters of a text (the text when it has
\* fewer).
LastChars(s, n) == [i \in 1..(IF Len(s) < n THEN Len(s) ELSE n) |->
                      s[i + (IF Len(s) < n THEN 0 ELSE Len(s) - n)]]
FirstChars(s, n) == [i \in 1..(IF Len(s) < n THEN Len(s) ELSE n) |-> s[i]]

\* Two requests agree on provider, model, the last 200 characters of the
\* prefix and the first 60 characters of the suffix.
SameNearCursor(a, b) ==
    /\ a.provider = b.provider
    /\ a.model = b.model
    /\ LastChars(a.prefix, 200) = LastChars(b.prefix, 200)
    /\ FirstChars(a.suffix, 60) = FirstChars(b.suffix, 60)

\* C24: two requests that agree on provider, model, the last 200 characters
\* of the prefix and the first 60 characters of the suffix get the same key,
\* whatever the rest of their prefix and suffix is.
C24_KeyOfWindowsOnly ==
    (call.fn = "_req_key" /\ SameNearCursor(call.a, call.b)) => call.ka = call.kb

\* Two requests that agree near the cursor and differ both before the prefix
\* window and after the suffix window got the same key.
C24_Witness ==
    /\ call.fn = "_req_key"
    /\ SameNearCursor(call.a, call.b)
    /\ call.a.prefix # call.b.prefix
    /\ call.a.suffix # call.b.suffix
    /\ Len(call.a.prefix) > 200 /\ Len(call.a.suffix) > 60
    /\ call.ka = call.kb

\* C25: a run of stream_chat_model in which the streaming request raised or
\* was answered with a status of 400 or more before a chunk was yielded ends
\* by returning, after the one-shot query and with the text of its answer as
\* the only chunk.
C25_EarlyFailureFallsBack ==
    (stream.pc \in {"done", "raised"} /\ stream.failed # "no" /\ stream.early) =>
        /\ stream.pc = "done"
        /\ stream.queried
        /\ stream.query.ok
        /\ stream.chunks = << stream.query.value >>

\* C26: the suggestion cache never holds more than 512 entries.
C26_AtMostMaxSizeEntries == Cardinality(Entries(capD)) <= MaxSize

\* C27: limiter_for creates the bucket of a user on the first call for that
\* user and returns that bucket on every later call; the buckets of different
\* users are different objects; the map holds the bucket returned and no
\* bucket ever leaves the map.
C27_OneBucketPerUserForever ==
    /\ [](/\ \A i \in 1..Len(limLog) :
                /\ limLog[i].created <=> \A j \in 1..(i - 1) : limLog[j].user # limLog[i].user
                /\ user_limiters[limLog[i].user] = limLog[i].bucket
          /\ \A i, j \in 1..Len(limLog) :
                (limLog[i].user = limLog[j].user) <=> (limLog[i].bucket = limLog[j].bucket))
    /\ [][\A u \in Users : user_limiters[u] # None => user_limiters'[u] = user_limiters[u]]_vars

\* A user called limiter_for twice and got the same bucket twice, and another
\* user got another bucket.
C27_Witness ==
    \E i, j, k \in 1..Len(limLog) :
        /\ i < j
        /\ limLog[i].user = limLog[j].user
        /\ limLog[i].created /\ ~limLog[j].created
        /\ limLog[i].bucket = limLog[j].bucket
        /\ limLog[k].user # limLog[i].user
        /\ limLog[k].bucket # limLog[i].bucket
        /\ user_limiters[limLog[i].user] = limLog[i].bucket
        /\ user_limiters[limLog[k].user] = limLog[k].bucket

\* C29: LengthLimiter(N, M).process returns the last min(N, len(prefix))
\* characters of the prefix and the first min(M, len(suffix)) characters of
\* the suffix, for every N >= 0 and M >= 0, and removes_cursor is false.
C29_LastNFirstM ==
    call.fn = "LengthLimiter" =>
        /\ call.out.prefix = LastChars(call.prefix, call.max_prefix)
        /\ call.out.suffix = FirstChars(call.suffix, call.max_suffix)
        /\ ~call.removes

\* C30: when the factory of a flight has returned a Result, the leader's do
\* call has not raised in that flight, and every joiner of the flight that
\* was resumed from its `await fut` without being cancelled itself got that
\* Result, also when another joiner of the flight was cancelled.
C30_JoinerCancelHarmless ==
    \A f \in 1..Len(flights) :
        facOut[f].state = "result" =>
            /\ ~(pc[flights[f].leader] = "failed" /\ curFlight[flights[f].leader] = f)
            /\ \A c \in CallIds :
                  joinSeen[c].flight = f =>
                      /\ joinSeen[c].state = "result"
                      /\ joinSeen[c].result = facOut[f].result

\* Joiner c awaits the shared future of a flight whose leader was cancelled
\* while the factory was running.
AwaitsCancelledLeader(c) ==
    /\ pc[c] = "sf_join"
    /\ facOut[curFlight[c]].state = "cancelled"

\* C31: when the leader of a flight is cancelled while its factory is running,
\* every joiner of that flight eventually leaves its `await fut`, with a
\* result or an error, instead of waiting forever on the shared future.
C31_JoinersOfCancelledLeaderReturn ==
    \A c \in CallIds : AwaitsCancelledLeader(c) ~> ~AwaitsCancelledLeader(c)

\* The fn invocations of user u that have returned, as indices of fnLog: an
\* invocation has not returned when it is the last one of its runner and the
\* runner is still inside it or ended by its exception.
FnReturned(u) ==
    {j \in 1..Len(fnLog[u]) :
        ~(/\ \A k \in (j + 1)..Len(fnLog[u]) : fnLog[u][k].runner # fnLog[u][j].runner
          /\ (InFn(fnLog[u][j].runner) \/ pc[fnLog[u][j].runner] = "failed"))}

\* The invocation whose text is doneLog[u][i], as an index of fnLog.
FnOf(u, i) ==
    CHOOSE j \in FnReturned(u) : Cardinality({k \in FnReturned(u) : k <= j}) = i

\* The runners: the run calls that found their user's lock free.
IsRunner(c) == arr[c].entered /\ ~arr[c].locked

\* The waiters of the first cycle of runner r: the run calls of its user that
\* arrived while the first fn invocation of r was running.
FirstCycleWaiters(r) ==
    {w \in CallIds : /\ cUser[w] = cUser[r] /\ arr[w].entered /\ arr[w].locked
                     /\ arr[w].fn = arr[r].fn + 1 /\ arr[w].done = arr[r].done}

\* C32: a runner returns the text of the last fn invocation of its dispatch
\* loop; when later calls extended the loop, that invocation was given the
\* context of the latest caller that had arrived, not the runner's own; the
\* first invocation was given the runner's context and, once it has returned,
\* the waiters of the first cycle have its text.
C32_RunnerReturnsLastText ==
    \A r \in CallIds :
        IsRunner(r) =>
            LET u == cUser[r]
                first == arr[r].fn + 1
                i == LastBy(r)
                j == FnOf(u, i)
            IN  /\ fnLog[u][first] = [ctx |-> cCtx[r], src |-> r, runner |-> r]
                /\ pc[r] = "done" =>
                     /\ ret[r] = doneLog[u][i]
                     /\ ret[r] \in {fnLog[u][j].ctx, EmptyText}
                     /\ fnLog[u][j].runner = r
                     /\ \A k \in (j + 1)..Len(fnLog[u]) : fnLog[u][k].runner # r
                     /\ j # first =>
                          /\ fnLog[u][j].src # r
                          /\ fnLog[u][j].ctx = cCtx[fnLog[u][j].src]
                          /\ \A d \in Entered(u) : arr[d].fn < j => d <= fnLog[u][j].src
                /\ first \in FnReturned(u) =>
                     \A w \in FirstCycleWaiters(r) :
                        /\ FnOf(u, arr[r].done + 1) = first
                        /\ fut[w] = Resolved(doneLog[u][arr[r].done + 1])
                        /\ fut[w].val \in {cCtx[r], EmptyText}
                        /\ pc[w] = "done" => ret[w] = fut[w].val

\* C32 witness: a runner whose loop was extended has returned the completion
\* for the latest caller's context, which is not its own, and a waiter of its
\* first cycle has returned the completion for the runner's context.
C32_Witness ==
    \E r, w \in CallIds :
        /\ IsRunner(r) /\ pc[r] = "done"
        /\ w \in FirstCycleWaiters(r) /\ pc[w] = "done"
        /\ ret[w] = cCtx[r]
        /\ ret[r] = cCtx[LastOf(cUser[r])]
        /\ ret[r] # cCtx[r]
        /\ ret[r] # EmptyText /\ ret[w] # EmptyText

\* No fn invocation of user u has raised.
NoneRaised(u) == \A c \in CallIds : cUser[c] = u => pc[c] # "failed"

\* C33: whenever a user's lock is free and no fn invocation of that user has
\* raised, the user has no stored latest context, the waiter list holds no
\* future and no future of a run call of that user is unresolved.
C33_IdleSlotIsClean ==
    \A u \in Users :
        (~locks[u] /\ NoneRaised(u)) =>
            /\ latest[u] = NoLatest
            /\ waiters[u] = << >>
            /\ \A c \in Entered(u) : fut[c].done

\* C33 witness: the lock of a user is free after a dispatch loop of two fn
\* invocations that served a runner and two waiters.
C33_Witness ==
    \E u \in Users :
        /\ ~locks[u] /\ NoneRaised(u)
        /\ Len(doneLog[u]) = 2
        /\ Cardinality({c \in Entered(u) : arr[c].locked}) = 2

\* C34: every context passed to fn was submitted by a run call of the same
\* user, the context of a run call is passed to fn at most once, and the fn
\* invocations of a user are never more than the user's run calls.
C34_DispatchedOnceFromOwnCalls ==
    \A u \in Users :
        /\ \A j \in 1..Len(fnLog[u]) :
              /\ fnLog[u][j].src \in Entered(u)
              /\ fnLog[u][j].ctx = cCtx[fnLog[u][j].src]
              /\ \A k \in 1..Len(fnLog[u]) : fnLog[u][k].src = fnLog[u][j].src => k = j
        /\ Len(fnLog[u]) <= Cardinality(Entered(u))

\* C34 witness: a user made three run calls and the dispatch loop ended after
\* two fn invocations, so the context of one call was never dispatched.
C34_Witness ==
    \E u \in Users :
        /\ Cardinality(Entered(u)) = 3
        /\ Len(fnLog[u]) = 2
        /\ ~locks[u]
        /\ \E c \in Entered(u) : \A j \in 1..Len(fnLog[u]) : fnLog[u][j].src # c

\* The fn invocation j of user u ended by raising: it is the last one of its
\* runner, whose run call ended with the exception.
FnRaised(u, j) ==
    /\ pc[fnLog[u][j].runner] = "failed"
    /\ \A k \in (j + 1)..Len(fnLog[u]) : fnLog[u][k].runner # fnLog[u][j].runner

\* The context of run call w was left in the latest slot by a failed loop: w
\* is the last call that arrived during an fn invocation that raised.
LeftInSlot(w) ==
    /\ arr[w].entered /\ arr[w].locked
    /\ FnRaised(cUser[w], arr[w].fn)
    /\ \A d \in Entered(cUser[w]) : (arr[d].locked /\ arr[d].fn = arr[w].fn) => d <= w

\* C35: when fn raises in the runner, the run call of the runner ends with
\* the exception and the user's lock is released in the same step; the next
\* run call of that user becomes a runner and dispatches fn with its own
\* context; the context the failed loop left in the latest slot is never
\* dispatched.
C35_RaiseFreesTheSlot ==
    /\ [](\A w \in CallIds :
            LeftInSlot(w) =>
                \A j \in 1..Len(fnLog[cUser[w]]) : fnLog[cUser[w]][j].src # w)
    /\ [][\A c \in CallIds :
            /\ (pc[c] # "failed" /\ pc'[c] = "failed") =>
                  /\ InFn(c)
                  /\ locks[cUser[c]] /\ ~locks'[cUser[c]]
                  /\ ret'[c] = None
            /\ (/\ ~arr[c].entered /\ arr'[c].entered
                /\ ~locks[cUser'[c]]
                /\ ~NoneRaised(cUser'[c])) =>
                  /\ InFn(c)'
                  /\ locks'[cUser'[c]]
                  /\ latest'[cUser'[c]] = NoLatest
                  /\ fnLog'[cUser'[c]] =
                        Append(fnLog[cUser'[c]],
                               [ctx |-> cCtx'[c], src |-> c, runner |-> c])
      ]_vars

\* C35 witness: the fn of a runner raised while a waiter's context was in the
\* latest slot (one that differs from the next call's); the next run call of
\* the user became a runner and its fn, given its own context, has returned.
C35_Witness ==
    \E r, w, d \in CallIds :
        /\ pc[r] = "failed"
        /\ LeftInSlot(w) /\ fnLog[cUser[w]][arr[w].fn].runner = r
        /\ cUser[d] = cUser[r] /\ IsRunner(d) /\ d > w
        /\ cCtx[d] # cCtx[w]
        /\ pc[d] = "done" /\ ret[d] = cCtx[d]

\* C36: every value the suggestion cache holds under a key is a non-empty
\* completion that an fn invocation got from a successful fetch_predictions
\* and that was computed for a context with that fingerprint; the invocation
\* was given a context with that fingerprint, whatever the context of the
\* request that started the dispatch loop.
C36_CachedUnderDispatchedKey ==
    \A k \in Keys :
        cache[k] # None =>
            /\ cache[k] # EmptyText
            /\ cache[k] \in Contexts /\ ReqKey(cache[k]) = k
            /\ \E u \in Users : \E i \in 1..Len(doneLog[u]) :
                  /\ doneLog[u][i] = cache[k]
                  /\ resLog[u][i].ok
                  /\ ReqKey(fnLog[u][FnOf(u, i)].ctx) = k

\* C36 witness: the cache holds a completion under the fingerprint of a
\* context that a dispatch loop took from the latest slot, and holds nothing
\* under the fingerprint of the request that started the loop.
C36_Witness ==
    \E r \in CallIds :
        /\ IsRunner(r) /\ pc[r] = "done"
        /\ ret[r] # EmptyText
        /\ ReqKey(ret[r]) # ReqKey(cCtx[r])
        /\ cache[ReqKey(ret[r])] = ret[r]
        /\ cache[ReqKey(cCtx[r])] = None

\* The task of run call c takes this step.
Acting(c) == pc'[c] # pc[c] \/ curFlight'[c] # curFlight[c]

\* C37: run calls of different users do not interact in LatestOnly.  A step of
\* a run call of one user leaves every other user's lock, latest context and
\* waiter list, and the futures and return values of the other users' run
\* calls, as they were; a run call waits exactly when the lock of its own user
\* is held; and the text a run call returns is the text of an fn invocation
\* of its own user: the one that resolved its future for a waiter, the last
\* one of its loop for a runner.
C37_UsersDoNotInteract ==
    /\ [](\A c \in CallIds :
            (arr[c].entered /\ pc[c] = "done") =>
                IF arr[c].locked
                THEN /\ futBy[c] \in 1..Len(doneLog[cUser[c]])
                     /\ ret[c] = doneLog[cUser[c]][futBy[c]]
                ELSE /\ LastBy(c) \in 1..Len(doneLog[cUser[c]])
                     /\ ret[c] = doneLog[cUser[c]][LastBy(c)])
    /\ [][\A c \in CallIds :
            Acting(c) =>
                /\ \A u \in Users \ {cUser'[c]} :
                      /\ locks'[u] = locks[u]
                      /\ latest'[u] = latest[u]
                      /\ waiters'[u] = waiters[u]
                      /\ fnLog'[u] = fnLog[u] /\ doneLog'[u] = doneLog[u]
                /\ \A d \in CallIds :
                      cUser[d] \notin {"-", cUser'[c]} =>
                          fut'[d] = fut[d] /\ ret'[d] = ret[d] /\ ~Acting(d)
                /\ (~arr[c].entered /\ arr'[c].entered) =>
                      ((pc'[c] = "await_fut") <=> locks[cUser'[c]])
      ]_vars

\* C37 witness: while the dispatch loop of one user is running with a waiter
\* that is still unresolved, a run call of another user arrived, ran fn and
\* returned.
C37_Witness ==
    \E w, d \in CallIds :
        /\ Orphan(w) /\ locks[cUser[w]]
        /\ w < d /\ cUser[d] # cUser[w]
        /\ IsRunner(d) /\ pc[d] = "done" /\ ret[d] # EmptyText

\* The do call of leader c is in progress: its factory is running, or its
\* task was cancelled during the factory and has not run since.
Leading(c) == pc[c] \in {"sf_factory", "cancel_factory"}

\* A do call of c is in progress, as leader or as joiner.
InDo(c) == pc[c] \in {"sf_factory", "cancel_factory", "sf_join", "cancel_join"}

\* C38: a key is in the SingleFlight map only while the do call of the leader
\* of its flight is in progress, and whenever no do call is in progress the
\* map is empty, also after factories have failed and leaders were cancelled.
C38_KeyOnlyWhileLeading ==
    /\ \A k \in Keys :
          futures[k] # None =>
              /\ flights[futures[k]].key = k
              /\ Leading(flights[futures[k]].leader)
              /\ curFlight[flights[futures[k]].leader] = futures[k]
    /\ (\A c \in CallIds : ~InDo(c)) => \A k \in Keys : futures[k] = None

\* C38 witness: no do call is in progress and the map is empty after one
\* leader's factory raised and another leader was cancelled.
C38_Witness ==
    /\ \A c \in CallIds : ~InDo(c)
    /\ \A k \in Keys : futures[k] = None
    /\ \E f, g \in 1..Len(facOut) :
          facOut[f].state = "exception" /\ facOut[g].state = "cancelled"

====
